---- MODULE Spec2Model ----
(***************************************************************************)
(* Model of the itinerary route of travel_planner                          *)
(* (src/app/api/itinerary/route.ts): the SSE ingestion of                  *)
(* generateCozeItinerary and the section splitter / synthesizer            *)
(* parseCozeResponseToItinerary.                                           *)
(*                                                                         *)
(* Text is a sequence of tokens.  A token is one character or one          *)
(* wire-format word:                                                       *)
(*   "NL" newline, "SP" blank, ":" half-width colon, "FC" full-width colon *)
(*   "TJ" = 旅行推荐, "GH" = 行程规划, "HB" = 旅行红黑榜 (section anchors) *)
(*   "MD" = 目的地, "PU" = one of ，。,. , "SHI" = 市/县/省/自治区/...      *)
(*   "BS" backslash, "Q" double quote, "n" the letter n,                   *)
(*   "LB" "RB" braces, "CM" comma of a JSON text, "+" "-" signs,           *)
(*   "0".."9" digits, any other string an ordinary character or word.      *)
(***************************************************************************)
EXTENDS Integers, Sequences, FiniteSets, TLC

VARIABLES
    params,               \* TravelParams of the request: [location, days, budget]
    wire,                 \* bytes of the response body not yet delivered by reader.read()
    buffer,               \* let buffer
    accumulatedResponse,  \* let accumulatedResponse
    completeResponse,     \* let completeResponse
    deltaCount,           \* let deltaCount
    isFinished,           \* let isFinished
    readerDone,           \* the reader has reported done: true
    pc,                   \* position of the call
    error,                \* the Error thrown by the call ("" while none)
    cozeText,             \* the cozeText argument of parseCozeResponseToItinerary
    itinerary,            \* the Itinerary returned (NoItinerary while none)
    input,                \* what the request was assembled from: [kind, parts, tail]
    shadow,               \* StreamState of the same stream without its malformed frames
    released,             \* number of reader.releaseLock() calls made
    post,                 \* the POST request being served (NoPost outside POST)
    other,                \* the locals of a second, concurrent call (NoCall if none)
    page                  \* the state of ResultsPage (NoPage while not shown)

vars == <<params, wire, buffer, accumulatedResponse, completeResponse, deltaCount,
          isFinished, readerDone, pc, error, cozeText, itinerary, input, shadow,
          released, post, other, page>>

\* what lives outside one call of generateCozeItinerary
outer == <<post, other, page>>

----------------------------------------------------------------------------
(* Bounds of the model *)

MaxFrames == 3
MaxSection == 2
MaxParagraphs == 4
MaxDaysLen == 3
MaxDays == 20
MaxElapsedMs == 1
MaxPostFrames == 2
MaxPairFrames == 1
MaxRequests == 3

----------------------------------------------------------------------------
(* Program constants *)

DefaultDays == 3
MsPerDay == 86400000
SummaryLimit == 200
DestinationPrefix == 10
FastPathDelta == 2
MaxDateDays == 100000000
RecoveryMinLength == 20

----------------------------------------------------------------------------
(* Generic sequence helpers *)

MinOf(S) == CHOOSE x \in S : \A y \in S : x <= y
MaxOf(S) == CHOOSE x \in S : \A y \in S : x >= y

From(s, i) == SubSeq(s, i, Len(s))

SeqsUpTo(A, n) == UNION {[1..k -> A] : k \in 0..n}

RECURSIVE Flatten(_)
Flatten(ss) == IF ss = <<>> THEN <<>> ELSE Head(ss) \o Flatten(Tail(ss))

\* String.prototype.indexOf(tok): first index of the token, 0 when absent
IndexOfTok(s, tok) ==
    LET idx == {i \in 1..Len(s) : s[i] = tok}
    IN  IF idx = {} THEN 0 ELSE MinOf(idx)

\* String.prototype.split(sep) for a one-token separator
RECURSIVE SplitOn(_, _)
SplitOn(s, sep) ==
    LET i == IndexOfTok(s, sep)
    IN  IF i = 0 THEN <<s>>
        ELSE <<SubSeq(s, 1, i - 1)>> \o SplitOn(From(s, i + 1), sep)

\* Array.prototype.join(sep)
RECURSIVE Join(_, _)
Join(parts, sep) ==
    IF parts = <<>> THEN <<>>
    ELSE IF Len(parts) = 1 THEN parts[1]
    ELSE parts[1] \o sep \o Join(Tail(parts), sep)

\* \s of a JavaScript regular expression, and what trim() strips
IsWs(t) == t \in {"SP", "NL"}

\* String.prototype.trim
Trim(s) ==
    LET idx == {i \in 1..Len(s) : ~IsWs(s[i])}
    IN  IF idx = {} THEN <<>> ELSE SubSeq(s, MinOf(idx), MaxOf(idx))

\* the position reached by a greedy \s* started at k
SkipWs(s, k) ==
    LET idx == {i \in k..Len(s) : ~IsWs(s[i])}
    IN  IF idx = {} THEN Len(s) + 1 ELSE MinOf(idx)

\* [：:]
IsColon(t) == t \in {":", "FC"}

\* <anchor word>[：:] matches at position i
AnchorAt(s, i, word) == i >= 1 /\ i + 1 <= Len(s) /\ s[i] = word /\ IsColon(s[i + 1])

----------------------------------------------------------------------------
(* parseCozeResponseToItinerary: day count *)

Digits == {"0", "1", "2", "3", "4", "5", "6", "7", "8", "9"}

DigitVal(d) ==
    CASE d = "0" -> 0 [] d = "1" -> 1 [] d = "2" -> 2 [] d = "3" -> 3 [] d = "4" -> 4
      [] d = "5" -> 5 [] d = "6" -> 6 [] d = "7" -> 7 [] d = "8" -> 8 [] d = "9" -> 9

RECURSIVE DecimalValue(_)
DecimalValue(ds) ==
    IF ds = <<>> THEN 0
    ELSE DecimalValue(SubSeq(ds, 1, Len(ds) - 1)) * 10 + DigitVal(ds[Len(ds)])

\* parseInt(str): leading white space, an optional sign, then the longest run of
\* digits; NaN when there is no digit
parseInt(str) ==
    LET st    == SkipWs(str, 1)
        neg   == st <= Len(str) /\ str[st] = "-"
        ds    == IF st <= Len(str) /\ str[st] \in {"-", "+"} THEN st + 1 ELSE st
        stop  == {i \in ds..Len(str) : str[i] \notin Digits}
        de    == IF stop = {} THEN Len(str) ELSE MinOf(stop) - 1
        v     == DecimalValue(SubSeq(str, ds, de))
    IN  IF de < ds THEN [nan |-> TRUE, v |-> 0]
        ELSE [nan |-> FALSE, v |-> IF neg THEN 0 - v ELSE v]

\* x || 3 on the result of parseInt
OrDefault(x) == IF x.nan \/ x.v = 0 THEN DefaultDays ELSE x.v

\* const [_, maxDays] = params.days.split('-').map(d => parseInt(d))
RangeSecond(days) == parseInt(SplitOn(days, "-")[2])

ParseDays(days) ==
    IF IndexOfTok(days, "-") > 0
    THEN OrDefault(RangeSecond(days))
    ELSE OrDefault(parseInt(days))

----------------------------------------------------------------------------
(* parseCozeResponseToItinerary: the three sections *)

\* positions e >= k at which the lookahead (?=\s*next[：:]) succeeds
LookAheads(s, k, next) == {e \in k..(Len(s) + 1) : AnchorAt(s, SkipWs(s, e), next)}

\* group 1 of  word[：:]\s*([\s\S]*?)(?=\s*next[：:])  on s; <<>> when there is no
\* match (the code treats no match and an empty group alike)
SectionBefore(s, word, next) ==
    LET starts == {i \in 1..Len(s) :
                     AnchorAt(s, i, word) /\ LookAheads(s, SkipWs(s, i + 2), next) # {}}
    IN  IF starts = {} THEN <<>>
        ELSE LET i == MinOf(starts)
                 k == SkipWs(s, i + 2)
                 e == MinOf(LookAheads(s, k, next))
             IN  SubSeq(s, k, e - 1)

\* group 1 of  word[：:]\s*([\s\S]*?)$  on s
SectionToEnd(s, word) ==
    LET starts == {i \in 1..Len(s) : AnchorAt(s, i, word)}
    IN  IF starts = {} THEN <<>>
        ELSE From(s, SkipWs(s, MinOf(starts) + 2))

\* the end of the match of \n\s*\n started at the newline at i (0: no match there)
BlankLineEnd(s, i) ==
    LET run == SkipWs(s, i + 1) - 1
        nls == {j \in (i + 1)..run : s[j] = "NL"}
    IN  IF s[i] = "NL" /\ nls # {} THEN MaxOf(nls) ELSE 0

\* cozeText.split(/\n\s*\n/)
RECURSIVE SplitParagraphs(_)
SplitParagraphs(s) ==
    LET starts == {i \in 1..Len(s) : BlankLineEnd(s, i) > 0}
    IN  IF starts = {} THEN <<s>>
        ELSE LET i == MinOf(starts)
             IN  <<SubSeq(s, 1, i - 1)>> \o SplitParagraphs(From(s, BlankLineEnd(s, i) + 1))

\* cozeText.split('\n')
SplitLines(s) == SplitOn(s, "NL")

PlaceholderTitle == <<"your-travel-plan">>
PlaceholderHighlights == <<"ai-generated">>

AnchoredSections(s) ==
    [title      |-> Trim(SectionBefore(s, "TJ", "GH")),
     plan       |-> Trim(SectionBefore(s, "GH", "HB")),
     highlights |-> Trim(SectionToEnd(s, "HB"))]

\* paragraphs.slice(1)
ParagraphsAfterFirst(p) == SubSeq(p, 2, Len(p))

\* paragraphs.slice(1, -1)
MiddleParagraphs(p) == SubSeq(p, 2, Len(p) - 1)

\* if (lines.length > 2)
HasThreeLines(lines) == Len(lines) > 2

\* if (lines.length > 1)
HasSeveralLines(lines) == Len(lines) > 1

FallbackSections(s) ==
    LET paragraphs == SplitParagraphs(s)
        lines      == SplitLines(s)
    IN  IF Len(paragraphs) >= 3
        THEN [title      |-> paragraphs[1],
              plan       |-> Join(MiddleParagraphs(paragraphs), <<"NL", "NL">>),
              highlights |-> paragraphs[Len(paragraphs)]]
        ELSE IF HasSeveralLines(lines)
        THEN [title |-> lines[1], plan |-> Join(Tail(lines), <<"NL">>), highlights |-> <<>>]
        ELSE [title |-> PlaceholderTitle, plan |-> s, highlights |-> PlaceholderHighlights]

\* if (!title && !plan && !highlights)
NoSectionFound(a) == a.title = <<>> /\ a.plan = <<>> /\ a.highlights = <<>>

SplitSections(s) ==
    LET a == AnchoredSections(s)
    IN  IF NoSectionFound(a) THEN FallbackSections(s) ELSE a

----------------------------------------------------------------------------
(* parseCozeResponseToItinerary: destination, summary, budget, dates *)

UnknownDestination == <<"unknown-destination">>

\* [^\n,.，。]
IsDestChar(t) == t \notin {"NL", "PU"}

\* the end of the longest run of characters satisfying [^\n,.，。] that starts at p
DestRunEnd(s, p) ==
    LET stop == {j \in p..Len(s) : ~IsDestChar(s[j])}
    IN  IF stop = {} THEN Len(s) ELSE MinOf(stop) - 1

\* where group 1 of  目的地[:：]\s*([^\n,.，。]+)  starts for the marker at i: the
\* greedy \s* gives characters back until the group can take one (0: no match)
DestGroupStart(s, i) ==
    LET k  == SkipWs(s, i + 2)
        ok == {p \in (i + 2)..k : p <= Len(s) /\ IsDestChar(s[p])}
    IN  IF AnchorAt(s, i, "MD") /\ ok # {} THEN MaxOf(ok) ELSE 0

\* cozeText.match(/目的地[:：]\s*([^\n,.，。]+)/i): group 1, <<>> when no match
DestinationMarker(s) ==
    LET starts == {i \in 1..Len(s) : DestGroupStart(s, i) > 0}
    IN  IF starts = {} THEN <<>>
        ELSE LET p == DestGroupStart(s, MinOf(starts))
             IN  SubSeq(s, p, DestRunEnd(s, p))

\* the last administrative suffix the run [^，。,.]+ started at p can end in (0: none)
LocationEnd(s, p) ==
    LET stop == {j \in p..Len(s) : s[j] = "PU"}
        last == IF stop = {} THEN Len(s) ELSE MinOf(stop) - 1
        sfx  == {q \in (p + 1)..last : s[q] = "SHI"}
    IN  IF p <= Len(s) /\ s[p] # "PU" /\ sfx # {} THEN MaxOf(sfx) ELSE 0

\* title.match(/([^，。,.]+(?:市|县|省|自治区|特别行政区))/): group 1, <<>> when no match
LocationInTitle(title) ==
    LET starts == {p \in 1..Len(title) : LocationEnd(title, p) > 0}
    IN  IF starts = {} THEN <<>>
        ELSE SubSeq(title, MinOf(starts), LocationEnd(title, MinOf(starts)))

IsNotPunct(t) == t # "PU"

\* title.substring(0, Math.min(10, title.length)).replace(/[，。,.]/g, '')
TitlePrefix(title) ==
    SelectSeq(SubSeq(title, 1, IF Len(title) < DestinationPrefix
                                THEN Len(title) ELSE DestinationPrefix), IsNotPunct)

Destination(text, title) ==
    IF DestinationMarker(text) # <<>> THEN Trim(DestinationMarker(text))
    ELSE IF LocationInTitle(title) # <<>> THEN LocationInTitle(title)
    ELSE IF Len(title) > 0 THEN TitlePrefix(title)
    ELSE UnknownDestination

Ellipsis == <<".", ".", ".">>

Summary(text, title) ==
    LET summary == IF title # <<>> THEN title
                   ELSE SubSeq(text, 1, IF Len(text) < SummaryLimit
                                        THEN Len(text) ELSE SummaryLimit)
    IN  IF Len(summary) >= SummaryLimit THEN summary \o Ellipsis ELSE summary

Budget(p) ==
    IF p.budget # <<>> THEN <<"budget-about">> \o p.budget \o <<"yuan-rmb">>
    ELSE <<"budget-unlimited">>

\* new Date(t).toISOString().split('T')[0], as the number of the UTC day
IsoDate(t) == t \div MsPerDay

\* new Date(Date.now() + days * 86400000), Date.now() read as t
EndInstant(t, days) == t + days * MsPerDay

\* toISOString() throws a RangeError on an invalid Date: a time value beyond
\* MaxDateDays days (8.64e15 ms) from the epoch.  t + days * MsPerDay is compared
\* in days, so that no product leaves the range of the integers.
IsValidDate(t, days) == days + (t + MsPerDay - 1) \div MsPerDay <= MaxDateDays

\* the Itinerary built from cozeText and params; tStart and tEnd are the clock
\* values read by new Date() for startDate and by Date.now() for endDate.
\* dailyItinerary holds the day numbers; the placeholder activities and the
\* recommendations are functions of destination and day alone.
parseCozeResponseToItinerary(text, p, tStart, tEnd) ==
    LET days == ParseDays(p.days)
        sec  == SplitSections(text)
    IN  [destination    |-> Destination(text, sec.title),
         startDate      |-> IsoDate(tStart),
         endDate        |-> IsoDate(EndInstant(tEnd, days)),
         summary        |-> Summary(text, sec.title),
         budget         |-> Budget(p),
         dailyItinerary |-> [i \in 1..days |-> i],
         title          |-> sec.title,
         plan           |-> sec.plan,
         highlights     |-> sec.highlights]

\* the instants (ms) the clock can show when startDate is read: the start of a
\* day, its last millisecond, the start of the next day; the read for endDate
\* follows within MaxElapsedMs
ClockReads == {0, MsPerDay - 1, MsPerDay}

----------------------------------------------------------------------------
(* JSON values, as JSON.parse returns them.  A value is tagged:            *)
(*   [t |-> "str", v |-> tokens]   [t |-> "bool", v |-> BOOLEAN]           *)
(*   [t |-> "obj", v |-> sequence of <<key, value>> in insertion order]    *)
(*   [t |-> "null"]                [t |-> "undef"] (a missing property)    *)

Str(toks) == [t |-> "str", v |-> toks]
Obj(pairs) == [t |-> "obj", v |-> pairs]
Bool(b) == [t |-> "bool", v |-> b]
Null == [t |-> "null"]
Undef == [t |-> "undef"]

\* o[key], and o?.key when o is missing
Get(o, key) ==
    IF o.t # "obj" THEN Undef
    ELSE LET idx == {i \in 1..Len(o.v) : o.v[i][1] = key}
         IN  IF idx = {} THEN Undef ELSE o.v[MaxOf(idx)][2]

\* ToBoolean
Truthy(x) ==
    CASE x.t = "str"  -> x.v # <<>>
      [] x.t = "bool" -> x.v
      [] x.t = "obj"  -> TRUE
      [] OTHER        -> FALSE

\* x === 'word'
IsWord(x, word) == x.t = "str" /\ x.v = <<word>>

\* typeof x === 'string' && x.trim()
IsNonBlankString(x) == x.t = "str" /\ Trim(x.v) # <<>>

\* the content of a string value, '' for anything else the catalogue holds
Text(x) == IF x.t = "str" THEN x.v ELSE <<>>

\* the characters of a string inside a JSON text
RECURSIVE Escape(_)
Escape(toks) ==
    IF toks = <<>> THEN <<>>
    ELSE (CASE Head(toks) = "NL" -> <<"BS", "n">>
            [] Head(toks) = "Q"  -> <<"BS", "Q">>
            [] Head(toks) = "BS" -> <<"BS", "BS">>
            [] OTHER             -> <<Head(toks)>>) \o Escape(Tail(toks))

\* the JSON text of a value (what the upstream service writes after data:)
RECURSIVE Stringify(_)
RECURSIVE StringifyPairs(_)
StringifyPairs(pairs) ==
    IF pairs = <<>> THEN <<>>
    ELSE <<"Q", pairs[1][1], "Q", ":">> \o Stringify(pairs[1][2])
         \o (IF Len(pairs) > 1 THEN <<"CM">> ELSE <<>>) \o StringifyPairs(Tail(pairs))
Stringify(x) ==
    CASE x.t = "str"  -> <<"Q">> \o Escape(x.v) \o <<"Q">>
      [] x.t = "bool" -> IF x.v THEN <<"true">> ELSE <<"false">>
      [] x.t = "obj"  -> <<"LB">> \o StringifyPairs(x.v) \o <<"RB">>
      [] OTHER        -> <<"null">>

----------------------------------------------------------------------------
(* The payloads the upstream service sends in this model *)

AnswerText ==
    <<"TJ", ":", "xian-trip", "NL", "GH", ":", "detailed-plan", "NL",
      "HB", ":", "dos-and-donts">>

\* a string of more than 20 characters, and one of exactly 20
LongText == [i \in 1..(RecoveryMinLength + 1) |-> "w"]
RoundText == [i \in 1..RecoveryMinLength |-> "w"]

\* payloads that carry message.is_finish, with and without a type
FinishPayloads == {"pIsFinish", "pIsFinishDelta", "pIsFinishAnswer", "pIsFinishOther"}

\* a payload of an unknown subtype, and one that is not an object
OtherPayloads == {"pVerbose", "pString"}

\* payloads that carry text at several of the places the message rule looks at
ContentPayloads ==
    {"pAll", "pNoMessage", "pNoObject", "pNoDelta", "pAnswerText", "pText", "pAnswerObject",
     "pEmptyAnswer", "pEmptyContent", "pNestedNames", "pDeep", "pMessageString"}

\* answer payloads that carry text elsewhere than in a top-level content
SecondDeltaPayloads == {"pObjectValue", "pBoth", "pNoContent", "pEscaped"}

\* objects that may be left in the trailing buffer
RecoveryPayloads == {"pValueAnswer", "pLong", "pRound", "pNestedLong", "pBlankContent"}

IsFinish == <<"message", Obj(<< <<"is_finish", Bool(TRUE)>> >>)>>

MorePayloads(pid) ==
    CASE pid = "pIsFinish"       -> Obj(<< IsFinish >>)
      [] pid = "pIsFinishDelta"  -> Obj(<< <<"type", Str(<<"message.delta">>)>>, IsFinish >>)
      [] pid = "pIsFinishAnswer" -> Obj(<< <<"type", Str(<<"answer">>)>>, IsFinish >>)
      [] pid = "pIsFinishOther"  -> Obj(<< <<"type", Str(<<"verbose">>)>>, IsFinish >>)
      [] pid = "pVerbose"        -> Obj(<< <<"type", Str(<<"verbose">>)>>,
                                           <<"content", Str(<<"c">>)>> >>)
      [] pid = "pString"         -> Str(<<"[DONE]">>)
      [] pid = "pAll"            ->
            Obj(<< <<"message", Obj(<< <<"content", Str(<<"m">>)>> >>)>>,
                   <<"object", Obj(<< <<"value", Str(<<"v">>)>> >>)>>,
                   <<"delta", Obj(<< <<"content", Str(<<"d">>)>> >>)>>,
                   <<"content", Str(<<"c">>)>>, <<"answer", Str(<<"w">>)>>,
                   <<"text", Str(<<"t">>)>> >>)
      [] pid = "pNoMessage"      ->
            Obj(<< <<"text", Str(<<"t">>)>>, <<"answer", Str(<<"w">>)>>,
                   <<"content", Str(<<"c">>)>>,
                   <<"delta", Obj(<< <<"content", Str(<<"d">>)>> >>)>>,
                   <<"object", Obj(<< <<"value", Str(<<"v">>)>> >>)>> >>)
      [] pid = "pNoObject"       ->
            Obj(<< <<"text", Str(<<"t">>)>>, <<"answer", Str(<<"w">>)>>,
                   <<"content", Str(<<"c">>)>>,
                   <<"delta", Obj(<< <<"content", Str(<<"d">>)>> >>)>> >>)
      [] pid = "pNoDelta"        ->
            Obj(<< <<"text", Str(<<"t">>)>>, <<"answer", Str(<<"w">>)>>,
                   <<"content", Str(<<"c">>)>> >>)
      [] pid = "pAnswerText"     ->
            Obj(<< <<"text", Str(<<"t">>)>>, <<"answer", Str(<<"w">>)>> >>)
      [] pid = "pText"           -> Obj(<< <<"text", Str(<<"t">>)>> >>)
      [] pid = "pAnswerObject"   ->
            Obj(<< <<"answer", Obj(<< <<"id", Str(<<"7">>)>> >>)>>,
                   <<"text", Str(<<"t">>)>> >>)
      [] pid = "pEmptyAnswer"    ->
            Obj(<< <<"answer", Str(<<>>)>>, <<"text", Str(<<"SP">>)>> >>)
      [] pid = "pEmptyContent"   ->
            Obj(<< <<"message", Obj(<< <<"content", Str(<<>>)>> >>)>>,
                   <<"content", Str(<<>>)>>, <<"text", Str(<<"t">>)>> >>)
      [] pid = "pNestedNames"    ->
            Obj(<< <<"data", Obj(<< <<"value", Str(<<"v">>)>>, <<"text", Str(<<"t">>)>> >>)>>,
                   <<"extra", Obj(<< <<"content", Str(<<"c">>)>> >>)>> >>)
      [] pid = "pDeep"           ->
            Obj(<< <<"a", Obj(<< <<"b", Obj(<< <<"value", Str(<<"v">>)>> >>)>> >>)>>,
                   <<"c", Obj(<< <<"content", Str(<<"c">>)>> >>)>> >>)
      [] pid = "pMessageString"  ->
            Obj(<< <<"data", Obj(<< <<"text", Str(<<"t">>)>> >>)>>,
                   <<"message", Str(<<"m">>)>> >>)
      [] pid = "pObjectValue"    ->
            Obj(<< <<"type", Str(<<"answer">>)>>,
                   <<"object", Obj(<< <<"value", Str(<<"v">>)>> >>)>> >>)
      [] pid = "pBoth"           ->
            Obj(<< <<"type", Str(<<"answer">>)>>,
                   <<"object", Obj(<< <<"value", Str(<<"v">>)>> >>)>>,
                   <<"message", Obj(<< <<"content", Str(<<"m">>)>> >>)>> >>)
      [] pid = "pNoContent"      ->
            Obj(<< <<"type", Str(<<"answer">>)>>, <<"content", Str(<<>>)>> >>)
      [] pid = "pEscaped"        ->
            Obj(<< <<"type", Str(<<"answer">>)>>,
                   <<"content", Str(<<"a", "NL", "Q", "b">>)>> >>)
      [] pid = "pValueAnswer"    ->
            Obj(<< <<"value", Str(<<"v">>)>>, <<"answer", Str(<<"w">>)>> >>)
      [] pid = "pLong"           ->
            Obj(<< <<"id", Str(<<"7">>)>>, <<"note", Str(LongText)>> >>)
      [] pid = "pRound"          -> Obj(<< <<"note", Str(RoundText)>> >>)
      [] pid = "pNestedLong"     ->
            Obj(<< <<"outer", Obj(<< <<"note", Str(LongText)>> >>)>> >>)
      [] pid = "pBlankContent"   ->
            Obj(<< <<"content", Str(<<"SP">>)>>, <<"text", Str(<<"t">>)>> >>)


Payload(pid) ==
    CASE pid = "pPlan"    -> Obj(<< <<"type", Str(<<"answer">>)>>,
                                    <<"content", Str(AnswerText)>> >>)
      [] pid = "pAnswer"  -> Obj(<< <<"type", Str(<<"answer">>)>>,
                                    <<"content", Str(<<"a">>)>> >>)
      [] pid = "pBare"    -> Obj(<< <<"type", Str(<<"answer">>)>> >>)
      [] pid = "pDelta"   -> Obj(<< <<"content", Str(<<"b">>)>> >>)
      [] pid = "pFinish"  -> Obj(<< <<"type", Str(<<"generate_answer_finish">>)>> >>)
      [] pid = "pEmpty"   -> Obj(<< >>)
      [] pid = "pFailure" -> Obj(<< <<"code", Str(<<"4000">>)>> >>)
      [] pid = "pError"   -> Obj(<< <<"type", Str(<<"error">>)>>,
                                    <<"error", Obj(<< <<"code", Str(<<"4000">>)>> >>)>> >>)
      [] pid = "pNull"    -> Null
      [] OTHER            -> MorePayloads(pid)

ValidPayloads ==
    {"pPlan", "pAnswer", "pBare", "pDelta", "pFinish", "pEmpty", "pFailure", "pError", "pNull"}
    \cup FinishPayloads \cup OtherPayloads \cup ContentPayloads \cup SecondDeltaPayloads
    \cup RecoveryPayloads

\* a JSON text cut short: JSON.parse throws a SyntaxError on it
MalformedPayloads == {"pCut"}

\* the characters one token of the wire stands for
WireText(tok) ==
    IF tok \in ValidPayloads THEN Stringify(Payload(tok))
    ELSE IF tok = "pCut" THEN <<"LB", "Q", "type", "Q", ":">>
    ELSE <<tok>>

RECURSIVE TextOf(_)
TextOf(toks) == IF toks = <<>> THEN <<>> ELSE WireText(Head(toks)) \o TextOf(Tail(toks))

\* JSON.parse(eventData): the value, or a SyntaxError
JSONparse(eventData) ==
    IF Len(eventData) = 1 /\ eventData[1] \in ValidPayloads
    THEN [ok |-> TRUE, value |-> Payload(eventData[1])]
    ELSE [ok |-> FALSE, value |-> Undef]

----------------------------------------------------------------------------
(* Frame Reader: the inner while loop of generateCozeItinerary *)

\* buffer.indexOf('\n\n'), 0 when absent
BoundaryIndex(buf) ==
    LET idx == {i \in 1..(Len(buf) - 1) : buf[i] = "NL" /\ buf[i + 1] = "NL"}
    IN  IF idx = {} THEN 0 ELSE MinOf(idx)

\* const chunk = buffer.substring(0, boundaryIndex)
NextBlock(buf) == SubSeq(buf, 1, BoundaryIndex(buf) - 1)

\* buffer = buffer.substring(boundaryIndex + 1)
AfterFirstNewline(buf) == From(buf, BoundaryIndex(buf) + 1)

\* buffer = buffer.substring(boundaryIndex + 2)
AfterBlock(buf) == From(buf, BoundaryIndex(buf) + 2)

\* the rest of the last line that starts with the field name, trimmed; dflt if none
FieldOf(block, field, dflt) ==
    LET lines == SplitLines(block)
        idx   == {i \in 1..Len(lines) : lines[i] # <<>> /\ lines[i][1] = field}
    IN  IF idx = {} THEN dflt ELSE Trim(Tail(lines[MaxOf(idx)]))

\* let eventType = ''
EventTypeOrNone(block) == FieldOf(block, "event:", <<>>)

\* line 376: let eventType = 'message', replaced by the last event: line
EventTypeOf(block) == FieldOf(block, "event:", <<"message">>)
EventDataOf(block) == FieldOf(block, "data:", <<>>)

\* the event type as one name ("" for an empty one, "unknown" for any other text)
EventName(eventType) ==
    IF eventType = <<>> THEN ""
    ELSE IF Len(eventType) = 1 THEN eventType[1] ELSE "unknown"

\* eventType.includes(part), for the event names of the model
Includes(name, part) ==
    \/ name = part
    \/ part = "conversation.message.delta" /\ name = "v2.conversation.message.delta"
    \/ part = "delta" /\ name \in {"conversation.message.delta", "v2.conversation.message.delta"}
    \/ part = "conversation.chat" /\ name = "conversation.chat.created"

----------------------------------------------------------------------------
(* Event Interpreter: the body of the try block, on the StreamState        *)
(*   [acc, complete, delta, fin, err]                                      *)
(* of accumulatedResponse, completeResponse, deltaCount, isFinished and    *)
(* the error thrown ("" while none).                                       *)

DELTA == "conversation.message.delta"

\* str.replace(/ab/g, r) for a two-character pattern
RECURSIVE ReplacePair(_, _, _, _)
ReplacePair(s, a, b, r) ==
    IF Len(s) < 2 THEN s
    ELSE IF s[1] = a /\ s[2] = b THEN r \o ReplacePair(From(s, 3), a, b, r)
    ELSE <<s[1]>> \o ReplacePair(Tail(s), a, b, r)

\* .replace(/\\n/g, '\n').replace(/\\"/g, '"').replace(/\\\\/g, '\\')
CleanTravelText(m) ==
    ReplacePair(ReplacePair(ReplacePair(m, "BS", "n", <<"NL">>),
                            "BS", "Q", <<"Q">>), "BS", "BS", <<"BS">>)

\* .replace(/\\n/g, '\n').replace(/\\"/g, '"')
CleanContent(m) == ReplacePair(ReplacePair(m, "BS", "n", <<"NL">>), "BS", "Q", <<"Q">>)

\* eventData.match(travelPattern): where match[0] starts (0: no match); it runs to
\* the end of eventData
TravelMatchStart(raw) ==
    LET hb == {l \in 1..Len(raw) : AnchorAt(raw, l, "HB")}
        gh == {j \in 1..Len(raw) : AnchorAt(raw, j, "GH") /\ \E l \in hb : l >= j + 2}
        tj == {i \in 1..Len(raw) : AnchorAt(raw, i, "TJ") /\ \E j \in gh : j >= i + 2}
    IN  IF tj = {} THEN 0 ELSE MinOf(tj)

\* where group 1 of  "content"\s*:\s*"([^"]+)"  starts for a match at i (0: no match)
ContentGroupStart(raw, i) ==
    LET c == SkipWs(raw, i + 3)
        q == SkipWs(raw, c + 1)
    IN  IF /\ i + 2 <= Len(raw)
           /\ raw[i] = "Q" /\ raw[i + 1] = "content" /\ raw[i + 2] = "Q"
           /\ c <= Len(raw) /\ raw[c] = ":"
           /\ q + 1 <= Len(raw) /\ raw[q] = "Q" /\ raw[q + 1] # "Q"
           /\ \E r \in (q + 2)..Len(raw) : raw[r] = "Q"
        THEN q + 1 ELSE 0

\* eventData.match(/"content"\s*:\s*"([^"]+)"/): group 1, <<>> when no match
ContentMatch(raw) ==
    LET starts == {i \in 1..Len(raw) : ContentGroupStart(raw, i) > 0}
    IN  IF starts = {} THEN <<>>
        ELSE LET g == ContentGroupStart(raw, MinOf(starts))
                 r == MinOf({j \in g..Len(raw) : raw[j] = "Q"})
             IN  SubSeq(raw, g, r - 1)

\* the else branch of the second delta with the pattern match alone
ContentFieldOnly(raw, obj) ==
    IF ContentMatch(raw) # <<>> THEN CleanContent(ContentMatch(raw)) ELSE <<>>

\* the else branch of the second delta: content, then object.value, then message.content
ExtractedContent(raw, obj) ==
    IF ContentMatch(raw) # <<>> THEN CleanContent(ContentMatch(raw))
    ELSE IF Truthy(Get(Get(obj, "object"), "value")) THEN Text(Get(Get(obj, "object"), "value"))
    ELSE IF Truthy(Get(Get(obj, "message"), "content"))
         THEN Text(Get(Get(obj, "message"), "content"))
    ELSE <<>>

\* if (deltaCount === 1)
IsFirstDelta(count) == count = 1

\* if (deltaCount >= 2)
IsSecondDeltaOrLater(count) == count >= FastPathDelta

\* if (deltaCount === 2)
IsFastPathDelta(count) == count = FastPathDelta

\* lines 402-446: the conversation.message.delta / answer rule
DeltaRule(st, name, raw, obj) ==
    IF name = DELTA /\ IsWord(Get(obj, "type"), "answer")
    THEN LET counted == [st EXCEPT !.delta = st.delta + 1]
         IN  IF ~IsFastPathDelta(counted.delta) THEN counted
             ELSE IF TravelMatchStart(raw) > 0
             THEN [counted EXCEPT
                     !.complete = CleanTravelText(From(raw, TravelMatchStart(raw))),
                     !.fin = TRUE]
             ELSE IF ExtractedContent(raw, obj) # <<>>
             THEN [counted EXCEPT !.complete = ExtractedContent(raw, obj), !.fin = TRUE]
             ELSE counted
    ELSE st

ContentKeys == <<"content", "text", "value", "answer", "message">>

\* const findTextContent = (obj) => ...
RECURSIVE findTextContent(_)
RECURSIVE FindInProperties(_)
findTextContent(obj) ==
    IF obj.t # "obj" THEN <<>>
    ELSE LET hits == {k \in 1..Len(ContentKeys) : IsNonBlankString(Get(obj, ContentKeys[k]))}
         IN  IF hits # {} THEN Get(obj, ContentKeys[MinOf(hits)]).v
             ELSE FindInProperties(obj.v)
FindInProperties(pairs) ==
    IF pairs = <<>> THEN <<>>
    ELSE IF findTextContent(pairs[1][2]) # <<>> THEN findTextContent(pairs[1][2])
    ELSE FindInProperties(Tail(pairs))

\* lines 454-496: where the increment of a message is looked for
DeltaContent(obj) ==
    LET direct ==
          IF Truthy(Get(Get(obj, "message"), "content")) THEN Text(Get(Get(obj, "message"), "content"))
          ELSE IF Truthy(Get(Get(obj, "object"), "value")) THEN Text(Get(Get(obj, "object"), "value"))
          ELSE IF Truthy(Get(Get(obj, "delta"), "content")) THEN Text(Get(Get(obj, "delta"), "content"))
          ELSE IF Truthy(Get(obj, "content")) THEN Text(Get(obj, "content"))
          ELSE IF Get(obj, "answer").t = "str" THEN Get(obj, "answer").v
          ELSE IF Truthy(Get(obj, "text")) THEN Text(Get(obj, "text"))
          ELSE <<>>
    IN  IF direct # <<>> THEN direct ELSE findTextContent(obj)

\* if (deltaContent) { accumulatedResponse = deltaContent }
KeepLastFragment(acc, fragment) == IF fragment # <<>> THEN fragment ELSE acc

\* lines 498-499: if (deltaContent) { accumulatedResponse += deltaContent }
AppendFragment(acc, fragment) == IF fragment # <<>> THEN acc \o fragment ELSE acc

\* dataObj.message && dataObj.message.is_finish === true
IsFinishMessage(obj) ==
    /\ Truthy(Get(obj, "message"))
    /\ Get(Get(obj, "message"), "is_finish").t = "bool"
    /\ Get(Get(obj, "message"), "is_finish").v

\* lines 449-540: the rules by event type
EventRule(st, name, obj) ==
    IF name = "message" \/ Includes(name, DELTA)
    THEN LET messageType == IF Truthy(Get(obj, "type")) THEN Get(obj, "type")
                            ELSE Str(<<"message.delta">>)
         IN  IF IsWord(messageType, "message.delta") \/ IsWord(messageType, "answer")
             THEN [st EXCEPT !.acc = AppendFragment(st.acc, DeltaContent(obj))]
             ELSE IF \/ IsWord(messageType, "generate_answer_finish")
                     \/ IsFinishMessage(obj)
                     \/ Includes(name, "conversation.message.completed")
             THEN [st EXCEPT !.fin = TRUE]
             ELSE IF IsWord(messageType, "error")
             THEN [st EXCEPT !.err = "CozeError"]
             ELSE st
    ELSE IF name = "error" THEN [st EXCEPT !.err = "StreamError"]
    ELSE IF name = "ping" \/ name = "done" \/ Includes(name, "conversation.chat")
    THEN (IF name = "done" THEN [st EXCEPT !.fin = TRUE] ELSE st)
    ELSE st

\* lines 392-540: the try block.  Reading dataObj.type of null throws a TypeError
TryBlock(st, name, eventData) ==
    LET parsed == JSONparse(eventData)
    IN  IF ~parsed.ok THEN [st EXCEPT !.err = "SyntaxError"]
        ELSE IF parsed.value.t = "null" THEN [st EXCEPT !.err = "TypeError"]
        ELSE LET afterDelta == DeltaRule(st, name, TextOf(eventData), parsed.value)
             IN  EventRule(afterDelta, name, parsed.value)

\* catch (e) { throw e }
RethrowAll(st) == st

\* lines 541-549: catch (e) { if (e instanceof SyntaxError) ... else throw e }
CatchBlock(st) == IF st.err = "SyntaxError" THEN [st EXCEPT !.err = ""] ELSE st

\* the done event handled before the test of eventData
DoneBeforeData(st, block) ==
    IF Trim(block) = <<>> THEN st
    ELSE IF EventDataOf(block) = <<>>
    THEN (IF EventName(EventTypeOf(block)) = "done" THEN [st EXCEPT !.fin = TRUE] ELSE st)
    ELSE CatchBlock(TryBlock(st, EventName(EventTypeOf(block)), EventDataOf(block)))

\* lines 370-550: one pass of the inner loop on the line-group before the delimiter
ProcessBlock(st, block) ==
    IF Trim(block) = <<>> THEN st
    ELSE IF EventDataOf(block) = <<>> THEN st
    ELSE CatchBlock(TryBlock(st, EventName(EventTypeOf(block)), EventDataOf(block)))

----------------------------------------------------------------------------
(* Raw Recovery Extractor and the end of generateCozeItinerary *)

\* text.match(/\{[\s\S]*?\}/g): the matches, in order
RECURSIVE JsonMatches(_)
JsonMatches(text) ==
    LET i == IndexOfTok(text, "LB")
        j == IF i = 0 THEN 0 ELSE IndexOfTok(From(text, i + 1), "RB")
    IN  IF i = 0 \/ j = 0 THEN <<>>
        ELSE <<SubSeq(text, i, i + j)>> \o JsonMatches(From(text, i + j + 1))

\* JSON.parse(jsonStr) on a piece of the buffer
ParseText(text) ==
    LET hits == {pid \in ValidPayloads : Stringify(Payload(pid)) = text}
    IN  IF hits = {} THEN [ok |-> FALSE, value |-> Undef]
        ELSE [ok |-> TRUE, value |-> Payload(CHOOSE pid \in hits : TRUE)]

TextFields == <<"content", "text", "answer", "value", "message">>

\* const findText = (o) => ...: the first nested string of more than 20 characters
RECURSIVE findText(_)
RECURSIVE FindTextInProperties(_)
findText(o) == IF o.t # "obj" THEN <<>> ELSE FindTextInProperties(o.v)
FindTextInProperties(pairs) ==
    IF pairs = <<>> THEN <<>>
    ELSE LET x == pairs[1][2]
         IN  IF x.t = "str" /\ Len(Trim(x.v)) > RecoveryMinLength THEN x.v
             ELSE IF findText(x) # <<>> THEN findText(x)
             ELSE FindTextInProperties(Tail(pairs))

\* lines 574-610: the text one parsed object of the buffer yields
TextOfObject(obj) ==
    LET hits == {k \in 1..Len(TextFields) : IsNonBlankString(Get(obj, TextFields[k]))}
    IN  IF hits # {} THEN Get(obj, TextFields[MinOf(hits)]).v ELSE findText(obj)

\* lines 572-614: the first object of the buffer that parses and yields text
RECURSIVE FirstObjectText(_)
FirstObjectText(matches) ==
    IF matches = <<>> THEN <<>>
    ELSE LET parsed == ParseText(matches[1])
             found  == IF parsed.ok THEN TextOfObject(parsed.value) ELSE <<>>
         IN  IF found # <<>> THEN found ELSE FirstObjectText(Tail(matches))

\* buffer.match(/旅行推荐[\s\S]*?行程规划[\s\S]*?旅行红黑榜[\s\S]*/): start of match[0]
RawTravelMatchStart(text) ==
    LET hb == {l \in 1..Len(text) : text[l] = "HB"}
        gh == {j \in 1..Len(text) : text[j] = "GH" /\ \E l \in hb : l > j}
        tj == {i \in 1..Len(text) : text[i] = "TJ" /\ \E j \in gh : j > i}
    IN  IF tj = {} THEN 0 ELSE MinOf(tj)

\* lines 563-630: the final text recovered from a non-empty buffer
RawRecovery(text) ==
    IF FirstObjectText(JsonMatches(text)) # <<>> THEN FirstObjectText(JsonMatches(text))
    ELSE IF RawTravelMatchStart(text) > 0 THEN From(text, RawTravelMatchStart(text))
    ELSE text

\* if (buffer.length >= 0)
BufferDefined(buf) == Len(buf) >= 0

\* if (buffer.length > 0)
BufferHasData(buf) == Len(buf) > 0

\* lines 557-635: finalResponse, or the empty-response error
FinalResponse(complete, acc, buf) ==
    LET first == IF complete # <<>> THEN complete ELSE acc
    IN  IF Len(first) # 0 THEN [ok |-> TRUE, text |-> first]
        ELSE IF BufferHasData(buf) THEN [ok |-> TRUE, text |-> RawRecovery(TextOf(buf))]
        ELSE [ok |-> FALSE, text |-> <<>>]

----------------------------------------------------------------------------
(* The ingestion as a state machine *)

StreamState ==
    [acc |-> accumulatedResponse, complete |-> completeResponse,
     delta |-> deltaCount, fin |-> isFinished, err |-> error]

\* the frames of the upstream service: ev "" has no event: line, data "" no data: line
Frames ==
    {[ev |-> DELTA, data |-> "pPlan"], [ev |-> DELTA, data |-> "pAnswer"],
     [ev |-> DELTA, data |-> "pBare"], [ev |-> DELTA, data |-> "pCut"],
     [ev |-> "", data |-> "pDelta"],
     [ev |-> "done", data |-> "pEmpty"], [ev |-> "error", data |-> "pFailure"]}

\* what follows the last delimiter of the body
Tails == {<<>>, <<"data:", "pDelta">>}

\* event: <name>\ndata: <json>\n\n
Render(f) ==
    (IF f.ev = "" THEN <<>> ELSE <<"event:", f.ev, "NL">>)
    \o (IF f.data = "" THEN <<>> ELSE <<"data:", f.data, "NL">>) \o <<"NL">>

RECURSIVE RenderAll(_)
RenderAll(fs) == IF fs = <<>> THEN <<>> ELSE Render(Head(fs)) \o RenderAll(Tail(fs))

NoItinerary == <<>>

NoPost == [phase |-> "none"]
NoCall == [pc |-> "none"]
NoPage == [shown |-> FALSE]

\* no request, no second call, no page
Standalone == post = NoPost /\ other = NoCall /\ page = NoPage

FreshShadow == [acc |-> <<>>, complete |-> <<>>, delta |-> 0, fin |-> FALSE, err |-> "",
                skipped |-> 0]

RequestParams == [location |-> <<"beijing">>, days |-> <<"5", "-", "7">>, budget |-> <<>>]

\* lines 222-230 and 341-345: the state of a call whose reader has been acquired
FreshCall ==
    /\ buffer = <<>>
    /\ accumulatedResponse = <<>>
    /\ completeResponse = <<>>
    /\ deltaCount = 0
    /\ isFinished = FALSE
    /\ readerDone = FALSE
    /\ error = ""
    /\ itinerary = NoItinerary
    /\ shadow = FreshShadow
    /\ released = 0

Init ==
    /\ params = RequestParams
    /\ \E fs \in SeqsUpTo(Frames, MaxFrames), tl \in Tails :
          /\ input = [kind |-> "stream", parts |-> fs, tail |-> tl]
          /\ wire = RenderAll(fs) \o tl
    /\ cozeText = <<>>
    /\ FreshCall
    /\ Standalone
    /\ pc = "read"

\* lines 347 and 640-643: try { ... } finally { reader.releaseLock() }: the lock is
\* released when the try block is left, by a return or by a throw
ReleaseAfterReturn(n, exit) == IF exit = "return" THEN n + 1 ELSE n

ReleaseLock(n, exit) == IF exit \in {"return", "throw"} THEN n + 1 ELSE n

\* while (true)
LoopForever(finished) == TRUE

\* while (!isFinished)
LoopCondition(finished) == ~finished

\* the block a malformed-frame error is raised on
IsMalformedBlock(block) ==
    /\ Trim(block) # <<>>
    /\ EventDataOf(block) # <<>>
    /\ ~JSONparse(EventDataOf(block)).ok

\* where the call goes after a pass of the inner loop
AfterPass(st, buf) ==
    IF st.err # "" THEN "failed"
    ELSE IF BoundaryIndex(buf) > 0 THEN "frames" ELSE "read"

\* where the transport may end a chunk: after a newline (between two lines, inside
\* the delimiter, after it), inside a data: line, and at the end of the body
CutPoints(w) == {n \in 1..Len(w) : n = Len(w) \/ w[n] \in {"NL", "data:"}}

\* lines 349-358: reader.read() delivers the next chunk
ReadChunk ==
    /\ pc = "read"
    /\ LoopCondition(isFinished)
    /\ wire # <<>>
    /\ \E n \in CutPoints(wire) :
          /\ buffer' = buffer \o SubSeq(wire, 1, n)
          /\ wire' = From(wire, n + 1)
    /\ readerDone' = FALSE
    /\ pc' = IF BoundaryIndex(buffer') > 0 THEN "frames" ELSE "read"
    /\ UNCHANGED <<params, accumulatedResponse, completeResponse, deltaCount, isFinished,
                   error, cozeText, itinerary, input, shadow, released>>
    /\ UNCHANGED outer

\* lines 349-354: reader.read() reports done
ReadDone ==
    /\ pc = "read"
    /\ LoopCondition(isFinished)
    /\ wire = <<>>
    /\ readerDone' = TRUE
    /\ pc' = "final"
    /\ UNCHANGED <<params, wire, buffer, accumulatedResponse, completeResponse, deltaCount,
                   isFinished, error, cozeText, itinerary, input, shadow, released>>
    /\ UNCHANGED outer

\* line 349: reader.read() rejects (the transport fails); the error leaves the try
\* block and the call
ReadError ==
    /\ pc = "read"
    /\ LoopCondition(isFinished)
    /\ error' = "ReadError"
    /\ shadow' = [shadow EXCEPT !.err = "ReadError"]
    /\ released' = ReleaseLock(released, "throw")
    /\ pc' = "failed"
    /\ UNCHANGED <<params, wire, buffer, accumulatedResponse, completeResponse, deltaCount,
                   isFinished, readerDone, cozeText, itinerary, input>>
    /\ UNCHANGED outer

\* line 348: the loop ends because isFinished is set
LoopExit ==
    /\ pc = "read"
    /\ ~LoopCondition(isFinished)
    /\ pc' = "final"
    /\ UNCHANGED <<params, wire, buffer, accumulatedResponse, completeResponse, deltaCount,
                   isFinished, readerDone, error, cozeText, itinerary, input, shadow,
                   released>>
    /\ UNCHANGED outer

\* the shadow after the block: a malformed frame is not in its stream
ShadowAfter(sh, block) ==
    IF IsMalformedBlock(block) THEN [sh EXCEPT !.skipped = sh.skipped + 1]
    ELSE LET ref == ProcessBlock([acc |-> sh.acc, complete |-> sh.complete,
                                  delta |-> sh.delta, fin |-> sh.fin, err |-> sh.err],
                                 block)
         IN  [acc |-> ref.acc, complete |-> ref.complete, delta |-> ref.delta,
              fin |-> ref.fin, err |-> ref.err, skipped |-> sh.skipped]

\* lines 369-551: one pass of the inner loop
ProcessFrame ==
    /\ pc = "frames"
    /\ \E st \in {ProcessBlock(StreamState, NextBlock(buffer))} :
          /\ buffer' = AfterBlock(buffer)
          /\ accumulatedResponse' = st.acc
          /\ completeResponse' = st.complete
          /\ deltaCount' = st.delta
          /\ isFinished' = st.fin
          /\ error' = st.err
          /\ pc' = AfterPass(st, buffer')
          /\ released' = ReleaseLock(released, IF st.err # "" THEN "throw" ELSE "none")
    /\ shadow' = ShadowAfter(shadow, NextBlock(buffer))
    /\ UNCHANGED <<params, wire, readerDone, cozeText, itinerary, input>>
    /\ UNCHANGED outer

\* lines 554-639: the final text, Raw Recovery, and the itinerary or the error
Finalize ==
    /\ pc = "final"
    /\ \E final \in {FinalResponse(completeResponse, accumulatedResponse, buffer)} :
          IF final.ok
          THEN /\ cozeText' = final.text
               /\ \E tStart \in ClockReads : \E tEnd \in tStart .. tStart + MaxElapsedMs :
                     IF IsValidDate(tEnd, ParseDays(params.days))
                     THEN /\ itinerary' =
                               <<parseCozeResponseToItinerary(final.text, params, tStart, tEnd)>>
                          /\ pc' = "returned"
                          /\ error' = error
                          /\ released' = ReleaseLock(released, "return")
                     ELSE /\ itinerary' = itinerary
                          /\ pc' = "failed"
                          /\ error' = "RangeError"
                          /\ released' = ReleaseLock(released, "throw")
          ELSE /\ error' = "EmptyResponse"
               /\ pc' = "failed"
               /\ released' = ReleaseLock(released, "throw")
               /\ UNCHANGED <<cozeText, itinerary>>
    /\ UNCHANGED <<params, wire, buffer, accumulatedResponse, completeResponse, deltaCount,
                   isFinished, readerDone, input, shadow>>
    /\ UNCHANGED outer

Next == ReadChunk \/ ReadDone \/ ReadError \/ LoopExit \/ ProcessFrame \/ Finalize

Spec == Init /\ [][Next]_vars

----------------------------------------------------------------------------
(* The ingestion on the events that end or fail a stream *)

COMPLETED == "conversation.message.completed"

\* error events, error and finish messages, the completed event, an answer delta
EventFrames ==
    {[ev |-> "error", data |-> "pFailure"], [ev |-> "error", data |-> "pNull"],
     [ev |-> "message", data |-> "pError"], [ev |-> COMPLETED, data |-> "pEmpty"],
     [ev |-> DELTA, data |-> "pAnswer"], [ev |-> "message", data |-> "pFinish"]}

InitEvents ==
    /\ params = RequestParams
    /\ \E fs \in SeqsUpTo(EventFrames, MaxFrames), tl \in Tails :
          /\ input = [kind |-> "stream", parts |-> fs, tail |-> tl]
          /\ wire = RenderAll(fs) \o tl
    /\ cozeText = <<>>
    /\ FreshCall
    /\ Standalone
    /\ pc = "read"

SpecEvents == InitEvents /\ [][Next]_vars

----------------------------------------------------------------------------
(* The ingestion on one frame of each shape the Event Interpreter tells     *)
(* apart, after nothing or after a first answer delta, and before nothing   *)
(* or before a message that carries content.                                *)

V2DELTA == "v2.conversation.message.delta"

FramesOf(evs, pids) == {[ev |-> e, data |-> d] : e \in evs, d \in pids}

RuleFrames ==
    FramesOf({"message", DELTA, V2DELTA}, FinishPayloads \cup {"pFinish"})
    \cup FramesOf({"ping", "done", "conversation.chat.created"},
                  {"pEmpty", "pString", "pNull", "pAnswer"})
    \cup FramesOf({"custom.event", "message"}, OtherPayloads \cup {"pNull", "pAnswer"})
    \cup FramesOf({"message", V2DELTA}, ContentPayloads)
    \cup FramesOf({DELTA}, SecondDeltaPayloads \cup {"pAnswer", "pBare", "pPlan", "pText"})

\* the frames before the frame: none, or a first answer delta
RulePrefixes == {<<>>, <<[ev |-> DELTA, data |-> "pAnswer"]>>}

\* the frames after the frame: none, or a message with content
RuleSuffixes == {<<>>, <<[ev |-> "", data |-> "pDelta"]>>}

InitRules ==
    /\ params = RequestParams
    /\ \E before \in RulePrefixes, f \in RuleFrames, after \in RuleSuffixes :
          /\ input = [kind |-> "stream", parts |-> before \o <<f>> \o after, tail |-> <<>>]
          /\ wire = RenderAll(before \o <<f>> \o after)
    /\ cozeText = <<>>
    /\ FreshCall
    /\ Standalone
    /\ pc = "read"

SpecRules == InitRules /\ [][Next]_vars

----------------------------------------------------------------------------
(* The ingestion on streams that end with text after the last delimiter:    *)
(* what Raw Recovery works on when no frame has given text.                 *)

\* the three anchors without their colons
BareAnchors == <<"TJ", "x", "GH", "y", "HB", "z">>

\* what follows the last delimiter: nothing, a data: line with one object, two such
\* lines, text with the anchors, an object and the anchors
RecoveryTails ==
    {<<>>, <<"junk">>, BareAnchors, <<"junk", "NL">> \o AnswerText,
     <<"data:", "pRound", "NL", "data:", "pDelta">>,
     <<"data:", "pDelta", "NL">> \o AnswerText}
    \cup {<<"data:", pid>> : pid \in RecoveryPayloads \cup {"pDelta", "pEmpty", "pObjectValue"}}

\* the frames before: none, a ping, a done, a message with content
RecoveryPrefixes ==
    {<<>>, <<[ev |-> "ping", data |-> "pEmpty"]>>, <<[ev |-> "done", data |-> "pEmpty"]>>,
     <<[ev |-> "", data |-> "pDelta"]>>}

InitRecovery ==
    /\ params = RequestParams
    /\ \E fs \in RecoveryPrefixes, tl \in RecoveryTails :
          /\ input = [kind |-> "stream", parts |-> fs, tail |-> tl]
          /\ wire = RenderAll(fs) \o tl
    /\ cozeText = <<>>
    /\ FreshCall
    /\ Standalone
    /\ pc = "read"

SpecRecovery == InitRecovery /\ [][Next]_vars

----------------------------------------------------------------------------
(* The ingestion on bodies given as line-groups: groups without event: line, *)
(* without data: line, blank groups, and text after the last delimiter.     *)

MaxGroups == 2

\* the line-groups of a body: an empty one, a blank one, data without event,
\* events without data or with blank data, a done and an error with data
LineGroups ==
    {<<>>, <<"SP">>, <<"data:", "pDelta">>,
     <<"event:", "error">>, <<"event:", "done">>,
     <<"event:", "error", "NL", "data:", "SP">>,
     <<"event:", "done", "NL", "data:", "pEmpty">>,
     <<"event:", "error", "NL", "data:", "pFailure">>}

\* what follows the last delimiter: nothing, a newline, a blank, a data: line
GroupTails == {<<>>, <<"NL">>, <<"SP">>, <<"data:", "pDelta">>}

\* each line-group followed by the two-newline delimiter
RECURSIVE Delimited(_)
Delimited(gs) ==
    IF gs = <<>> THEN <<>> ELSE Head(gs) \o <<"NL", "NL">> \o Delimited(Tail(gs))

InitGroups ==
    /\ params = RequestParams
    /\ \E gs \in SeqsUpTo(LineGroups, MaxGroups), tl \in GroupTails :
          /\ input = [kind |-> "groups", parts |-> gs, tail |-> tl]
          /\ wire = Delimited(gs) \o tl
    /\ cozeText = <<>>
    /\ FreshCall
    /\ Standalone
    /\ pc = "read"

SpecGroups == InitGroups /\ [][Next]_vars

----------------------------------------------------------------------------
(* POST: validation, storage, the call of generateCozeItinerary, fallback *)

\* the locals of one call of generateCozeItinerary, with what the model records of it
callVars == <<params, wire, buffer, accumulatedResponse, completeResponse, deltaCount,
              isFinished, readerDone, pc, error, cozeText, itinerary, input, shadow,
              released>>

\* the destinations table of generateMockItinerary, and its default
MockDestination(location) ==
    CASE location = <<"beijing">>   -> "xian"
      [] location = <<"shanghai">>  -> "hangzhou"
      [] location = <<"guangzhou">> -> "xiamen"
      [] location = <<"shenzhen">>  -> "sanya"
      [] OTHER                      -> "hangzhou"

\* `${days}`: the decimal digits of a number
RECURSIVE NumberText(_)
NumberText(n) ==
    LET digit == CHOOSE d \in Digits : DigitVal(d) = n % 10
    IN  IF n < 10 THEN <<digit>> ELSE NumberText(n \div 10) \o <<digit>>

\* lines 791-872: the mock Itinerary (requests of the model carry no destination);
\* summary, title, plan and highlights are templates filled with these values
generateMockItinerary(p, tStart, tEnd) ==
    LET days        == ParseDays(p.days)
        destination == MockDestination(p.location)
        filled      == NumberText(days) \o <<"from">> \o p.location \o <<"to", destination>>
    IN  [destination    |-> <<destination>>,
         startDate      |-> IsoDate(tStart),
         endDate        |-> IsoDate(EndInstant(tEnd, days)),
         summary        |-> <<"mock-summary">> \o filled,
         budget         |-> Budget(p),
         dailyItinerary |-> [i \in 1..days |-> i],
         title          |-> <<"mock-title">> \o filled,
         plan           |-> <<"mock-plan">> \o filled,
         highlights     |-> <<"mock-highlights", destination>>]

\* the mock itineraries a request can get, over the clock reads
MockItineraries(p) ==
    UNION {{generateMockItinerary(p, tStart, tEnd) :
               tEnd \in tStart .. tStart + MaxElapsedMs} : tStart \in ClockReads}

\* NextResponse.json(...)
NoResponse ==
    [status |-> 0, success |-> FALSE, fallback |-> FALSE, data |-> NoItinerary, error |-> ""]
BadRequest(what) == [NoResponse EXCEPT !.status = 400, !.error = what]
ServerError == [NoResponse EXCEPT !.status = 500, !.error = "internal"]
Success(it, isFallback) ==
    [NoResponse EXCEPT !.status = 200, !.success = TRUE, !.fallback = isFallback,
                       !.data = <<it>>]

\* the request bodies of the model: a blank location, a blank day field, day
\* counts, and a day count that leaves the range of Date
Requests ==
    {[RequestParams EXCEPT !.location = l, !.days = d] :
        l \in {<<"beijing">>, <<"SP">>},
        d \in {<<"5", "-", "7">>, <<"2">>, <<>>, <<"2", "0", "0", "0", "0", "0", "0", "0", "0">>}}

PostFrames ==
    {[ev |-> DELTA, data |-> "pPlan"], [ev |-> DELTA, data |-> "pAnswer"],
     [ev |-> "error", data |-> "pFailure"]}

\* what a saveTravelPreference / saveItinerary call can do
StorageOutcomes == {"row", "null", "throws"}

\* what fetch can do: a 2xx response with a body, a rejection, a non-2xx status,
\* a response without body
Upstream == {"stream", "FetchError", "HttpError", "NoBody"}

NewPost(env) ==
    [phase |-> "validate", env |-> env, hasPreferenceId |-> FALSE, prefOutcome |-> "",
     remoteCalls |-> 0, aiError |-> "", saves |-> <<>>, response |-> NoResponse,
     abandoned |-> FALSE]

InitPost ==
    /\ params \in Requests
    /\ \E fs \in SeqsUpTo(PostFrames, MaxPostFrames) :
          input = [kind |-> "post", parts |-> fs, tail |-> <<>>]
    /\ wire = <<>>
    /\ cozeText = <<>>
    /\ FreshCall
    /\ pc = "idle"
    /\ post \in {NewPost(env) : env \in BOOLEAN}
    /\ other = NoCall
    /\ page = NoPage

\* lines 93-105: the required fields
Validate ==
    /\ post.phase = "validate"
    /\ post' = IF Trim(params.location) = <<>>
               THEN [post EXCEPT !.phase = "responded", !.response = BadRequest("location")]
               ELSE IF Trim(params.days) = <<>>
               THEN [post EXCEPT !.phase = "responded", !.response = BadRequest("days")]
               ELSE [post EXCEPT !.phase = "preference"]
    /\ UNCHANGED <<callVars, other, page>>

\* lines 117-136: saveTravelPreference inside its own try / catch
SavePreference ==
    /\ post.phase = "preference"
    /\ \E outcome \in StorageOutcomes :
          post' = [post EXCEPT !.phase = "call", !.prefOutcome = outcome,
                               !.hasPreferenceId = (outcome = "row")]
    /\ UNCHANGED <<callVars, other, page>>

\* if (TRUE): the configuration is never found missing
NeverMissing(env) == FALSE

\* line 244: if (!workflowId || !apiKey || !endpoint)
ConfigMissing(env) == ~env

\* lines 140 and 222-345: generateCozeItinerary up to the acquisition of the reader
CallCoze ==
    /\ post.phase = "call"
    /\ IF ConfigMissing(post.env)
       THEN /\ post' = [post EXCEPT !.phase = "mock", !.aiError = "ConfigError"]
            /\ UNCHANGED callVars
       ELSE \E up \in Upstream :
               IF up = "stream"
               THEN /\ post' = [post EXCEPT !.phase = "ingest",
                                            !.remoteCalls = post.remoteCalls + 1]
                    /\ wire' = RenderAll(input.parts)
                    /\ pc' = "read"
                    /\ UNCHANGED <<params, buffer, accumulatedResponse, completeResponse,
                                   deltaCount, isFinished, readerDone, error, cozeText,
                                   itinerary, input, shadow, released>>
               ELSE /\ post' = [post EXCEPT !.phase = "mock", !.aiError = up,
                                            !.remoteCalls = post.remoteCalls + 1]
                    /\ UNCHANGED callVars
    /\ UNCHANGED <<other, page>>

\* try { await saveItinerary(...) } catch (dbError) {}: without the catch
PropagateDbError(outcome) == IF outcome = "throws" THEN "throw" ELSE "continue"

\* lines 144-162 and 180-198: try { await saveItinerary(...) } catch (dbError) {}
AfterSaveItinerary(outcome) == "continue"

\* saveItinerary called without the test of preferenceId
SavesAlways(p, isAi, outcome) == Append(p.saves, [ai |-> isAi, outcome |-> outcome])

\* if (preferenceId): the outcomes of the saveItinerary call, if it is made
SaveOutcomes(hasId) == IF hasId THEN StorageOutcomes ELSE {"not-called"}

SavesAfter(p, isAi, outcome) ==
    IF p.hasPreferenceId THEN Append(p.saves, [ai |-> isAi, outcome |-> outcome])
    ELSE p.saves

\* lines 141-169: generateCozeItinerary has returned an itinerary
RespondItinerary ==
    /\ post.phase = "ingest"
    /\ pc = "returned"
    /\ \E outcome \in SaveOutcomes(post.hasPreferenceId) :
          post' = [post EXCEPT
                     !.phase = "responded",
                     !.saves = SavesAfter(post, TRUE, outcome),
                     !.response = IF AfterSaveItinerary(outcome) = "throw" THEN ServerError
                                  ELSE Success(itinerary[1], FALSE)]
    /\ UNCHANGED <<callVars, other, page>>

\* line 171: catch (aiError), entered by an error thrown during the ingestion
CatchAiError ==
    /\ post.phase = "ingest"
    /\ pc = "failed"
    /\ post' = [post EXCEPT !.phase = "mock", !.aiError = error]
    /\ UNCHANGED <<callVars, other, page>>

\* lines 172-207: the mock itinerary is built, saved and returned; an error thrown
\* by generateMockItinerary reaches the outer catch (lines 209-215)
Fallback ==
    /\ post.phase = "mock"
    /\ \E tStart \in ClockReads : \E tEnd \in tStart .. tStart + MaxElapsedMs :
          IF IsValidDate(tEnd, ParseDays(params.days))
          THEN \E outcome \in SaveOutcomes(post.hasPreferenceId) :
                  post' = [post EXCEPT
                             !.phase = "responded",
                             !.saves = SavesAfter(post, FALSE, outcome),
                             !.response =
                                IF AfterSaveItinerary(outcome) = "throw" THEN ServerError
                                ELSE Success(generateMockItinerary(params, tStart, tEnd), TRUE)]
          ELSE post' = [post EXCEPT !.phase = "responded", !.response = ServerError]
    /\ UNCHANGED <<callVars, other, page>>

\* the client disconnects while the request is served; nothing in POST or in
\* generateCozeItinerary reads request.signal, and fetch is given no signal
Abandon ==
    /\ post.phase \notin {"none", "responded"}
    /\ ~post.abandoned
    /\ post' = [post EXCEPT !.abandoned = TRUE]
    /\ UNCHANGED <<callVars, other, page>>

NextPost ==
    \/ Validate \/ SavePreference \/ CallCoze \/ RespondItinerary \/ CatchAiError
    \/ Fallback \/ Abandon
    \/ ReadChunk \/ ReadDone \/ ReadError \/ LoopExit \/ ProcessFrame \/ Finalize

SpecPost == InitPost /\ [][NextPost]_vars

----------------------------------------------------------------------------
(* Two calls of generateCozeItinerary served concurrently: the event loop    *)
(* runs one call at a time and may resume the other one between two steps.  *)

\* the locals of the running call
Locals ==
    [params |-> params, wire |-> wire, buffer |-> buffer,
     accumulatedResponse |-> accumulatedResponse, completeResponse |-> completeResponse,
     deltaCount |-> deltaCount, isFinished |-> isFinished, readerDone |-> readerDone,
     pc |-> pc, error |-> error, cozeText |-> cozeText, itinerary |-> itinerary,
     input |-> input, shadow |-> shadow, released |-> released]

\* let deltaCount declared at module level: one counter for all the calls
SharedDeltaCount(call, running) == [call EXCEPT !.deltaCount = running.deltaCount]

\* lines 229-230 and 342-345: let deltaCount, completeResponse, accumulatedResponse,
\* buffer, isFinished are declared inside the function: the call resumed finds its
\* own bindings, whatever the call that ran in between did to its own
Resume(call, running) == call

InFlight(call) == call.pc \in {"read", "frames", "final"}

\* the stream of the second call: two answer deltas
PairStream == <<[ev |-> DELTA, data |-> "pAnswer"], [ev |-> DELTA, data |-> "pPlan"]>>

PairFrames == {[ev |-> DELTA, data |-> "pPlan"], [ev |-> DELTA, data |-> "pAnswer"]}

\* the locals of a call whose reader has just been acquired
FreshLocals(fs) ==
    [params |-> RequestParams, wire |-> RenderAll(fs), buffer |-> <<>>,
     accumulatedResponse |-> <<>>, completeResponse |-> <<>>, deltaCount |-> 0,
     isFinished |-> FALSE, readerDone |-> FALSE, pc |-> "read", error |-> "",
     cozeText |-> <<>>, itinerary |-> NoItinerary,
     input |-> [kind |-> "stream", parts |-> fs, tail |-> <<>>],
     shadow |-> FreshShadow, released |-> 0]

InitPair ==
    /\ params = RequestParams
    /\ \E fs \in SeqsUpTo(PairFrames, MaxPairFrames) :
          /\ input = [kind |-> "stream", parts |-> fs, tail |-> <<>>]
          /\ wire = RenderAll(fs)
    /\ cozeText = <<>>
    /\ FreshCall
    /\ pc = "read"
    /\ other = [locals |-> FreshLocals(PairStream), mixed |-> FALSE]
    /\ post = NoPost
    /\ page = NoPage

\* the event loop leaves the running call where it is and resumes the other one
Switch ==
    /\ other # NoCall
    /\ InFlight(other.locals)
    /\ \E call \in {Resume(other.locals, Locals)} :
          /\ params' = call.params
          /\ wire' = call.wire
          /\ buffer' = call.buffer
          /\ accumulatedResponse' = call.accumulatedResponse
          /\ completeResponse' = call.completeResponse
          /\ deltaCount' = call.deltaCount
          /\ isFinished' = call.isFinished
          /\ readerDone' = call.readerDone
          /\ pc' = call.pc
          /\ error' = call.error
          /\ cozeText' = call.cozeText
          /\ itinerary' = call.itinerary
          /\ input' = call.input
          /\ shadow' = call.shadow
          /\ released' = call.released
    /\ other' = [locals |-> Locals,
                 mixed  |-> other.mixed \/ (InFlight(Locals) /\ buffer # <<>>
                                            /\ other.locals.buffer # <<>>)]
    /\ UNCHANGED <<post, page>>

NextPair ==
    \/ Switch
    \/ ReadChunk \/ ReadDone \/ ReadError \/ LoopExit \/ ProcessFrame \/ Finalize

SpecPair == InitPair /\ [][NextPair]_vars

\* the inner while loop run to its end on a buffer: [st, buf]
RECURSIVE Drain(_, _)
Drain(st, buf) ==
    IF st.err # "" \/ BoundaryIndex(buf) = 0 THEN [st |-> st, buf |-> buf]
    ELSE Drain(ProcessBlock(st, NextBlock(buf)), AfterBlock(buf))

\* how a call ends: the final text, or the error thrown
Ending(failure, text) == [err |-> failure, text |-> text]

\* the endings of a call run alone from the StreamState st with buf buffered and
\* w still to come, over all the ways the transport can cut w into chunks
RECURSIVE SoloEndings(_, _, _)
SoloEndings(st, buf, w) ==
    LET final == FinalResponse(st.complete, st.acc, buf)
        ended == {IF final.ok THEN Ending("", final.text) ELSE Ending("EmptyResponse", <<>>)}
    IN  IF st.err # "" THEN {Ending(st.err, <<>>)}
        ELSE IF ~LoopCondition(st.fin) THEN ended
        ELSE {Ending("ReadError", <<>>)}
             \cup (IF w = <<>> THEN ended
                   ELSE UNION {LET pass == Drain(st, buf \o SubSeq(w, 1, n))
                               IN  SoloEndings(pass.st, pass.buf, From(w, n + 1)) :
                               n \in CutPoints(w)})

----------------------------------------------------------------------------
(* ResultsPage: the page that reads the stored TravelParams, posts them to   *)
(* /api/itinerary and shows the itinerary or the error.                      *)

\* the TravelParams the form can have stored
PageParams ==
    {[RequestParams EXCEPT !.days = d] : d \in {<<"5", "-", "7">>, <<"2">>, <<"3">>}}

\* sessionStorage.getItem('travelParams'): no item, an item that JSON.parse
\* rejects, or the TravelParams
Storage ==
    {[kind |-> k, value |-> RequestParams] : k \in {"absent", "corrupt"}}
    \cup {[kind |-> "params", value |-> p] : p \in PageParams}

\* what the fetch of POST /api/itinerary can come to: a JSON body of the route,
\* an HTML page, a body that is neither, or a rejected fetch
Replies(p) ==
    {[kind |-> "json", body |-> Success(generateMockItinerary(p, t, t), f)] :
        t \in {0, MsPerDay}, f \in BOOLEAN}
    \cup {[kind |-> "json", body |-> b] :
             b \in {BadRequest("location"), ServerError,
                    [ServerError EXCEPT !.error = ""]}}
    \cup {[kind |-> k, body |-> NoResponse] : k \in {"html", "text", "network"}}

\* useState: itinerary null, loading true, error null, params null
NewPage(stored) ==
    [shown |-> TRUE, route |-> "results", storage |-> stored, mounted |-> FALSE,
     itinerary |-> NoItinerary, loading |-> TRUE, error |-> "", params |-> <<>>,
     pending |-> <<>>, sent |-> 0]

InitPage ==
    /\ params = RequestParams
    /\ input = [kind |-> "page", parts |-> <<>>, tail |-> <<>>]
    /\ wire = <<>>
    /\ cozeText = <<>>
    /\ FreshCall
    /\ pc = "idle"
    /\ post = NoPost
    /\ other = NoCall
    /\ page \in {NewPage(stored) : stored \in Storage}

\* generateItinerary up to its first await: setLoading(true); setError(null); fetch
StartRequest(pg, p) ==
    [pg EXCEPT !.loading = TRUE, !.error = "", !.pending = <<p>>, !.sent = pg.sent + 1]

\* the message of the Error that generateItinerary catches, "" when none is thrown
ReplyError(reply) ==
    CASE reply.kind = "network" -> "fetch failed"
      [] reply.kind = "html"    -> "html error page"
      [] reply.kind = "text"    -> "unparsable response"
      [] reply.body.status # 200 ->
            IF reply.body.error # "" THEN reply.body.error ELSE "generate failed"
      [] OTHER -> ""

\* the mount effect
Mount ==
    /\ page.shown
    /\ ~page.mounted
    /\ page' = CASE page.storage.kind = "params" ->
                      StartRequest([page EXCEPT !.mounted = TRUE,
                                                !.params = <<page.storage.value>>],
                                   page.storage.value)
                 [] page.storage.kind = "absent" ->
                      [page EXCEPT !.mounted = TRUE, !.error = "no travel params",
                                   !.loading = FALSE]
                 [] OTHER ->
                      [page EXCEPT !.mounted = TRUE, !.error = "cannot read travel params",
                                   !.loading = FALSE]
    /\ UNCHANGED <<callVars, post, other>>

\* generateItinerary from the answer of the fetch to its finally
Respond ==
    /\ page.shown
    /\ page.pending # <<>>
    /\ \E reply \in Replies(page.pending[1]) :
          page' = IF ReplyError(reply) = ""
                  THEN [page EXCEPT !.itinerary = reply.body.data, !.loading = FALSE,
                                    !.pending = <<>>]
                  ELSE [page EXCEPT !.error = ReplyError(reply), !.loading = FALSE,
                                    !.pending = <<>>]
    /\ UNCHANGED <<callVars, post, other>>

\* the button area is rendered
ButtonsRendered(pg) == pg.error = ""

\* a button of the button area can be clicked
Clickable(pg) == ButtonsRendered(pg) /\ ~pg.loading

\* a click on the regenerate button
Regenerate ==
    /\ page.shown
    /\ page.route = "results"
    /\ Clickable(page)
    /\ page.sent < MaxRequests
    /\ page' = IF page.params # <<>> THEN StartRequest(page, page.params[1]) ELSE page
    /\ UNCHANGED <<callVars, post, other>>

\* a click on the back button
Back ==
    /\ page.shown
    /\ page.route = "results"
    /\ Clickable(page)
    /\ page' = [page EXCEPT !.route = "home"]
    /\ UNCHANGED <<callVars, post, other>>

NextPage == Mount \/ Respond \/ Regenerate \/ Back

SpecPage == InitPage /\ [][NextPage]_vars

----------------------------------------------------------------------------
(* parseCozeResponseToItinerary called on its own, on bounded inputs *)

SectionChars == {"a", "NL", "GH"}

\* 旅行推荐:A\n行程规划:B\n旅行红黑榜:C
AnchoredInputs ==
    {[kind |-> "anchored", parts |-> <<a, b, c>>, tail |-> <<>>] :
        a \in SeqsUpTo(SectionChars, MaxSection),
        b \in SeqsUpTo(SectionChars, MaxSection),
        c \in SeqsUpTo(SectionChars, MaxSection)}

Paragraphs == {<<"a">>, <<"b">>, <<"a", "NL", "b">>, <<"SP", "b", "SP">>}

\* blank lines between two paragraphs
BlankLines == {<<"NL", "NL">>, <<"NL", "SP", "NL", "NL">>}

\* paragraphs without anchors, separated by blank lines
ParagraphInputs ==
    {[kind |-> "paragraphs", parts |-> ps, tail |-> sep] :
        ps \in UNION {[1..k -> Paragraphs] : k \in 1..MaxParagraphs}, sep \in BlankLines}

DayChars == {"1", "2", "7", "-", "x"}

\* the day fields POST lets through (not blank), up to MaxDays days
DayStrings ==
    {d \in SeqsUpTo(DayChars, MaxDaysLen) : Trim(d) # <<>> /\ ParseDays(d) <= MaxDays}

DayInputs == {[kind |-> "days", parts |-> <<d>>, tail |-> <<>>] : d \in DayStrings}

\* the anchors of a text that has some of the three, but not all, in their order
SomeAnchors ==
    {<<"TJ">>, <<"GH">>, <<"HB">>, <<"TJ", "GH">>, <<"GH", "HB">>, <<"TJ", "HB">>}

\* the text that follows an anchor of such a text
SectionOf(anchor) ==
    CASE anchor = "TJ" -> <<"x">> [] anchor = "GH" -> <<"y">> [] OTHER -> <<"z">>

\* 旅行推荐:x, 行程规划:y\n旅行红黑榜:z, ...
PartialInputs ==
    {[kind |-> "partial", parts |-> [i \in 1..Len(as) |-> <<as[i], ":">> \o SectionOf(as[i])],
      tail |-> as] : as \in SomeAnchors}

Assemble(in) ==
    CASE in.kind = "anchored" ->
           <<"TJ", ":">> \o in.parts[1] \o <<"NL", "GH", ":">> \o in.parts[2]
           \o <<"NL", "HB", ":">> \o in.parts[3]
      [] in.kind = "paragraphs" -> Join(in.parts, in.tail)
      [] in.kind = "partial" -> Join(in.parts, <<"NL">>)
      [] OTHER -> AnswerText

InitParse ==
    /\ input \in AnchoredInputs \cup ParagraphInputs \cup DayInputs \cup PartialInputs
    /\ params = IF input.kind = "days" THEN [RequestParams EXCEPT !.days = input.parts[1]]
                ELSE RequestParams
    /\ cozeText = Assemble(input)
    /\ wire = <<>>
    /\ FreshCall
    /\ Standalone
    /\ pc = "parse"

\* lines 653-786: one call of parseCozeResponseToItinerary
ParseCall ==
    /\ pc = "parse"
    /\ \E tStart \in ClockReads : \E tEnd \in tStart .. tStart + MaxElapsedMs :
          itinerary' = <<parseCozeResponseToItinerary(cozeText, params, tStart, tEnd)>>
    /\ pc' = "returned"
    /\ UNCHANGED <<params, wire, buffer, accumulatedResponse, completeResponse, deltaCount,
                   isFinished, readerDone, error, cozeText, input, shadow, released>>
    /\ UNCHANGED outer

NextParse == ParseCall

SpecParse == InitParse /\ [][NextParse]_vars

----------------------------------------------------------------------------
(* parseCozeResponseToItinerary on the texts and the budgets that decide the *)
(* destination, the summary and the budget field                             *)

\* a run of n characters
Run(n) == [i \in 1..n |-> "c"]

\* title sections: none, a word, a place name, a place name after a comma, a
\* comma, twelve characters with a comma, 200 characters, 201 characters
FieldTitles ==
    {<<>>, <<"x">>, <<"x", "SHI">>, <<"x", "PU", "y", "SHI", "z">>, <<"PU">>,
     Run(DestinationPrefix - 1) \o <<"PU", "c", "c">>, Run(SummaryLimit), Run(SummaryLimit + 1)}

\* 目的地: markers: none, with a value, with a value between blanks and before a
\* comma, without value, with a blank before a comma, with the value on the next line
FieldMarkers ==
    {<<>>, <<"MD", ":", "d">>, <<"MD", ":", "SP", "d", "SP", "PU", "e">>, <<"MD", ":">>,
     <<"MD", ":", "SP", "PU">>, <<"MD", ":", "NL", "d">>}

\* texts without anchors: their first line (empty or not) and what follows it
FirstLines == {<<>>, <<"q">>}
RestOfText == {<<"r">>, Run(SummaryLimit - 2), Run(SummaryLimit + 1)}

\* the three sections with a marker line after them or before them, and texts
\* without anchors with a marker line at their end
FieldTexts ==
    {<<"TJ", ":">> \o t \o <<"NL", "GH", ":", "p", "NL", "HB", ":", "h", "NL">> \o m :
        t \in FieldTitles, m \in FieldMarkers}
    \cup {m \o <<"NL", "TJ", ":">> \o t \o <<"NL", "GH", ":", "p", "NL", "HB", ":", "h">> :
        t \in FieldTitles, m \in FieldMarkers}
    \cup {l \o <<"NL">> \o r \o <<"NL">> \o m :
        l \in FirstLines, r \in RestOfText, m \in FieldMarkers}

\* budget: unlimitedBudget ? "不限" : budget.toString()
SubmittedBudget(unlimitedBudget, budget) ==
    IF unlimitedBudget THEN <<"unlimited">> ELSE NumberText(budget)

\* the amounts of the form's slider in the model
FormBudgets == {0, 2000}

\* the budget of a request: the one the form submits, or none
RequestBudgets ==
    {<<>>} \cup {SubmittedBudget(u, b) : u \in BOOLEAN, b \in FormBudgets}

InitFields ==
    /\ \E text \in FieldTexts, b \in RequestBudgets :
          /\ input = [kind |-> "fields", parts |-> <<text>>, tail |-> b]
          /\ params = [RequestParams EXCEPT !.budget = b]
          /\ cozeText = text
    /\ wire = <<>>
    /\ FreshCall
    /\ Standalone
    /\ pc = "parse"

SpecFields == InitFields /\ [][NextParse]_vars

----------------------------------------------------------------------------
(* What the claims speak of *)

\* the number of frames of the body not processed yet
PendingFrames ==
    LET rest == buffer \o wire
    IN  Cardinality({i \in 1..(Len(rest) - 1) : rest[i] = "NL" /\ rest[i + 1] = "NL"})

\* the frames of the body processed so far, in order
Processed == SubSeq(input.parts, 1, Len(input.parts) - PendingFrames)

\* a frame the delta rule counts: event conversation.message.delta, payload type answer
IsAnswerDelta(f) ==
    /\ f.ev = DELTA
    /\ f.data \in ValidPayloads
    /\ IsWord(Get(Payload(f.data), "type"), "answer")

AnswerDeltas(fs) == SelectSeq(fs, IsAnswerDelta)

Returned == pc = "returned"

Result == itinerary[1]

\* C1: completeResponse is set only by the step that processes the second
\* conversation.message.delta frame of payload type answer, and that step also
\* sets finished; the first, the third and later such frames leave it alone.
C1_FastPathOnSecondDelta ==
    [][completeResponse' # completeResponse =>
         /\ pc = "frames"
         /\ Len(Processed') = Len(Processed) + 1
         /\ IsAnswerDelta(input.parts[Len(Processed')])
         /\ Len(AnswerDeltas(Processed')) = 2
         /\ isFinished']_vars

C1_Witness ==
    /\ completeResponse # <<>>
    /\ Len(AnswerDeltas(Processed)) = 3
    /\ deltaCount = 3

\* C2: finished never goes back to false, and once it is true the reader is not
\* read again: no chunk is taken from the transport and no done is reported.
C2_NoReadAfterFinished ==
    [][isFinished => (isFinished' /\ wire' = wire /\ readerDone' = readerDone)]_vars

C2_Witness == isFinished /\ wire # <<>> /\ Returned

\* C3: once completeResponse holds a non-empty value no later step changes it.
C3_CompleteResponseSetOnce ==
    [][completeResponse # <<>> => completeResponse' = completeResponse]_vars

C3_Witness ==
    /\ completeResponse = <<"a">>
    /\ Len(AnswerDeltas(Processed)) = 3
    /\ Returned

\* C4: a frame whose data is not valid JSON is skipped without failing the call:
\* the stream state always equals the state of the same stream without its
\* malformed frames, and so does the final text.
C4_MalformedFrameSkipped ==
    /\ shadow.acc = accumulatedResponse
    /\ shadow.complete = completeResponse
    /\ shadow.delta = deltaCount
    /\ shadow.fin = isFinished
    /\ shadow.err = (IF error = "EmptyResponse" THEN "" ELSE error)
    /\ Returned => cozeText = FinalResponse(shadow.complete, shadow.acc, buffer).text

C4_Witness ==
    /\ shadow.skipped >= 1
    /\ Returned
    /\ accumulatedResponse # <<>>
    /\ Len(Processed) = MaxFrames

\* the read loop ended without an error and the call is over
StreamEnded == pc \in {"returned", "failed"} /\ error \in {"", "EmptyResponse"}

\* C5: when the stream ends with completeResponse, accumulatedText and the
\* trailing buffer all empty, the call fails with the empty-response error and
\* returns no itinerary; an itinerary is never built from empty text.
C5_EmptyResponseFails ==
    /\ (StreamEnded /\ completeResponse = <<>> /\ accumulatedResponse = <<>> /\ buffer = <<>>)
         => (pc = "failed" /\ error = "EmptyResponse" /\ itinerary = NoItinerary)
    /\ Returned => (cozeText # <<>> /\ itinerary # NoItinerary)
    /\ itinerary # NoItinerary => cozeText # <<>>

C5_Witness == pc = "failed" /\ error = "EmptyResponse" /\ Len(input.parts) >= 1

\* C6: for {location: 北京, days: "5-7"} and a stream whose second answer delta
\* carries 旅行推荐:西安之旅\n行程规划:详细安排...\n旅行红黑榜:推荐/避坑... in its
\* JSON payload, the itinerary has exactly these three sections and endDate is
\* today + 7 days.
C6_EndToEnd ==
    (/\ Returned
     /\ Len(AnswerDeltas(Processed)) >= 2
     /\ AnswerDeltas(input.parts)[2].data = "pPlan")
    => /\ Result.title = <<"xian-trip">>
       /\ Result.plan = <<"detailed-plan">>
       /\ Result.highlights = <<"dos-and-donts">>
       /\ Result.endDate = Result.startDate + 7

IsNumber(d) == d # <<>> /\ \A i \in 1..Len(d) : d[i] \in Digits

\* "N": a positive integer
IsSingleDays(d) == IsNumber(d) /\ DecimalValue(d) > 0

\* "N-M": two positive integers
IsRangeDays(d) ==
    /\ Len(SplitOn(d, "-")) = 2
    /\ IsSingleDays(SplitOn(d, "-")[1])
    /\ IsSingleDays(SplitOn(d, "-")[2])

Greater(a, b) == IF a >= b THEN a ELSE b

\* C7: dayCount is N for "N", max(N, M) for "N-M" in either order, and 3 when
\* the string holds no number.
C7_DayCount ==
    (Returned /\ input.kind = "days") =>
       LET d == params.days
           n == Len(Result.dailyItinerary)
       IN  /\ IsSingleDays(d) => n = DecimalValue(d)
           /\ IsRangeDays(d) => n = Greater(DecimalValue(SplitOn(d, "-")[1]),
                                            DecimalValue(SplitOn(d, "-")[2]))
           /\ (\A i \in 1..Len(d) : d[i] \notin Digits) => n = 3

\* C8: endDate is exactly dayCount calendar days after startDate, whenever the
\* clock is read.
C8_EndDateAfterStartDate ==
    Returned => Result.endDate = Result.startDate + Len(Result.dailyItinerary)

Reassemble(r) ==
    <<"TJ", ":">> \o r.title \o <<"NL", "GH", ":">> \o r.plan
    \o <<"NL", "HB", ":">> \o r.highlights

\* C9: on 旅行推荐:A\n行程规划:B\n旅行红黑榜:C the splitter returns trim(A), trim(B),
\* trim(C), and splitting the re-assembled output gives the same sections.
C9_SplitterOnAnchoredText ==
    (Returned /\ input.kind = "anchored") =>
       /\ Result.title = Trim(input.parts[1])
       /\ Result.plan = Trim(input.parts[2])
       /\ Result.highlights = Trim(input.parts[3])
       /\ SplitSections(Reassemble(Result)) =
            [title |-> Result.title, plan |-> Result.plan, highlights |-> Result.highlights]

\* C10: on text without anchors made of k >= 3 paragraphs separated by blank
\* lines, title is the first paragraph, plan the paragraphs 2..k-1 joined in
\* order, highlights the last paragraph.
C10_ParagraphFallback ==
    (Returned /\ input.kind = "paragraphs" /\ Len(input.parts) >= 3) =>
       LET k == Len(input.parts)
       IN  /\ Result.title = input.parts[1]
           /\ Result.plan = Join(SubSeq(input.parts, 2, k - 1), <<"NL", "NL">>)
           /\ Result.highlights = input.parts[k]

C10_Witness ==
    /\ Returned
    /\ input.kind = "paragraphs"
    /\ Len(input.parts) = 4
    /\ Result.plan = <<"b", "NL", "NL", "a", "NL", "b">>

\* the call has left generateCozeItinerary, by a return or by a throw
Exited == pc \in {"returned", "failed"}

\* C11: the reader acquired before the loop is released exactly once on every
\* exit path (normal completion, early termination by finished, protocol error,
\* read error, empty-response error) and is not released while the call runs.
C11_ReaderReleasedOnce == released = (IF Exited THEN 1 ELSE 0)

C11_Witness ==
    /\ pc = "failed"
    /\ error \in {"ReadError", "StreamError"}
    /\ accumulatedResponse # <<>>
    /\ released = 1

\* the frame the next pass of the inner loop interprets
CurrentFrame ==
    [name   |-> EventName(EventTypeOf(NextBlock(buffer))),
     parsed |-> JSONparse(EventDataOf(NextBlock(buffer)))]

\* a pass of the inner loop on a frame whose data has been parsed
ParsedFramePass ==
    /\ pc = "frames"
    /\ Trim(NextBlock(buffer)) # <<>>
    /\ EventDataOf(NextBlock(buffer)) # <<>>
    /\ CurrentFrame.parsed.ok
    /\ buffer' = AfterBlock(buffer)

\* eventType is exactly error, or a message / delta event whose payload type is error
IsErrorFrame(f) ==
    \/ f.name = "error"
    \/ /\ f.name = "message" \/ Includes(f.name, DELTA)
       /\ IsWord(Get(f.parsed.value, "type"), "error")

\* C12: processing a parsed error frame (eventType error, or a message / delta
\* event of payload type error) fails the call with a protocol error, and the
\* call returns no itinerary, whatever text was accumulated before.
C12_ErrorFrameFailsIngestion ==
    [][(ParsedFramePass /\ IsErrorFrame(CurrentFrame)) =>
          /\ pc' = "failed"
          /\ error' \in {"StreamError", "CozeError"}
          /\ itinerary' = NoItinerary]_vars

\* C19: a frame handled by the delta rule (eventType conversation.message.delta,
\* payload type answer) is not handled by the generic message rule as well:
\* processing it leaves accumulatedResponse unchanged.
C19_DeltaRuleFrameNotAccumulated ==
    [][(/\ ParsedFramePass
        /\ CurrentFrame.name = DELTA
        /\ IsWord(Get(CurrentFrame.parsed.value, "type"), "answer"))
       => accumulatedResponse' = accumulatedResponse]_vars

\* C20: a parsed frame whose eventType contains conversation.message.completed
\* sets finished, so that no chunk is read after the one that holds it.
C20_CompletedEventSetsFinished ==
    [][(ParsedFramePass /\ Includes(CurrentFrame.name, COMPLETED)) => isFinished']_vars

\* POST has answered
Responded == post.phase = "responded"

\* C13: for a request that passes validation, whenever the ingestion fails with
\* any error, POST answers success: true, fallback: true with the mock
\* generator's itinerary, and never with an error response.
C13_IngestionFailureFallsBack ==
    (Responded /\ post.aiError # "") =>
       /\ post.response.status = 200
       /\ post.response.success
       /\ post.response.fallback
       /\ post.response.data # NoItinerary
       /\ post.response.data[1] \in MockItineraries(params)

\* C15: a POST request issues at most one remote call, whatever error the
\* ingestion ends with, and none at all when the configuration is missing.
C15_AtMostOneRemoteCall ==
    /\ post.remoteCalls <= 1
    /\ ~post.env => post.remoteCalls = 0

C15_Witness ==
    /\ Responded
    /\ post.aiError \in {"StreamError", "EmptyResponse", "HttpError"}
    /\ post.remoteCalls = 1
    /\ post.response.fallback

\* C16: once the caller has abandoned the request, the ingestion issues no
\* further read on the transport.
C16_AbandonStopsReads == [][post.abandoned => wire' = wire]_vars

\* the answers POST gives to the request, from the request and the outcome of the
\* ingestion alone
ExpectedResponses ==
    IF Trim(params.location) = <<>> THEN {BadRequest("location")}
    ELSE IF Trim(params.days) = <<>> THEN {BadRequest("days")}
    ELSE IF post.aiError = "" THEN {Success(itinerary[1], FALSE)}
    ELSE IF \A t \in ClockReads : ~IsValidDate(t, ParseDays(params.days)) THEN {ServerError}
    ELSE {Success(mock, TRUE) : mock \in MockItineraries(params)}

\* C17: the POST response does not depend on storage: whether
\* saveTravelPreference and saveItinerary succeed, return null or throw, the
\* answer is the one the request and the ingestion determine, and no storage
\* failure makes it an error response.
C17_ResponseIndependentOfStorage == Responded => post.response \in ExpectedResponses

C17_Witness ==
    /\ Responded
    /\ post.saves # <<>>
    /\ post.saves[1].outcome = "throws"
    /\ post.prefOutcome = "row"
    /\ itinerary # NoItinerary
    /\ post.response = Success(itinerary[1], FALSE)

\* what a call that has ended ended with
EndingOf(call) ==
    Ending(call.error, IF call.pc = "returned" THEN call.cozeText ELSE <<>>)

\* the pairs <<stream, ending>> of a call run alone on a stream of the two calls
EndingsAlone ==
    UNION {{<<fs, ending>> : ending \in
               SoloEndings([acc |-> <<>>, complete |-> <<>>, delta |-> 0, fin |-> FALSE,
                            err |-> ""], <<>>, RenderAll(fs))} :
           fs \in SeqsUpTo(PairFrames, MaxPairFrames) \cup {PairStream}}

\* C14: two calls whose chunk reads and frame processing are interleaved in any
\* order each end as they can end when run alone on the same stream: the locals
\* of one call are never read or written by the other.
C14_ConcurrentCallsIndependent ==
    \A call \in {Locals, other.locals} :
       call.pc \in {"returned", "failed"} => <<call.input.parts, EndingOf(call)>> \in EndingsAlone

C14_Witness ==
    /\ other.mixed
    /\ pc = "returned"
    /\ other.locals.pc = "returned"
    /\ deltaCount + other.locals.deltaCount = 3

\* the page is on screen, the mount effect has run and no request is in flight
PageIdle == page.shown /\ page.mounted /\ page.route = "results" /\ ~page.loading

\* C18: on the results page, whenever no request is in flight, the user can click
\* the regenerate button, which posts the stored params again, and the back
\* button, also after a generation that failed.
C18_ButtonsWheneverIdle ==
    PageIdle => Clickable(page) /\ page.params # <<>>

\* the payload of the frame the next pass interprets
CurrentPayload == CurrentFrame.parsed.value

\* the frame is handled by the message rule: eventType message, or containing
\* conversation.message.delta
IsMessageFrame(f) == f.name = "message" \/ Includes(f.name, DELTA)

\* C21: for a parsed frame with eventType message or containing
\* conversation.message.delta, finished is set when the payload type is
\* generate_answer_finish, and also whenever the payload has
\* message.is_finish == true, whatever its type field is.
C21_FinishIndicatorsSetFinished ==
    [][(/\ ParsedFramePass
        /\ IsMessageFrame(CurrentFrame)
        /\ \/ IsWord(Get(CurrentPayload, "type"), "generate_answer_finish")
           \/ IsFinishMessage(CurrentPayload))
       => isFinished']_vars

\* C22: a parsed frame with eventType ping, done, or containing conversation.chat
\* never changes accumulatedText, completeResponse or deltaCount, and sets
\* finished if and only if its eventType is exactly done.
C22_ControlFrames ==
    [][(/\ ParsedFramePass
        /\ \/ CurrentFrame.name \in {"ping", "done"}
           \/ Includes(CurrentFrame.name, "conversation.chat"))
       => /\ accumulatedResponse' = accumulatedResponse
          /\ completeResponse' = completeResponse
          /\ deltaCount' = deltaCount
          /\ isFinished' = (isFinished \/ CurrentFrame.name = "done")]_vars

\* the frame matches none of the rules: an unknown eventType, an unknown message
\* subtype without a finish indicator, or a payload that is not an object
MatchesNoRule(f) ==
    /\ f.name \notin {"error", "ping", "done"}
    /\ ~Includes(f.name, "conversation.chat")
    /\ \/ ~IsMessageFrame(f)
       \/ f.parsed.value.t # "obj"
       \/ /\ IsWord(Get(f.parsed.value, "type"), "verbose")
          /\ ~IsFinishMessage(f.parsed.value)

\* C23: a frame whose data parses as JSON but matches none of the rules changes
\* no field of the stream state and never fails the ingestion.
C23_UnknownShapeIgnored ==
    [][(ParsedFramePass /\ MatchesNoRule(CurrentFrame))
       => /\ accumulatedResponse' = accumulatedResponse
          /\ completeResponse' = completeResponse
          /\ deltaCount' = deltaCount
          /\ isFinished' = isFinished
          /\ error' = ""
          /\ pc' # "failed"]_vars

\* the places of a payload looked at directly, in priority order
DirectPlaces ==
    << <<"message", "content">>, <<"object", "value">>, <<"delta", "content">>,
       <<"content">>, <<"answer">>, <<"text">> >>

\* the names the recursive search tries at each object, in order
SearchNames == <<"content", "text", "value", "answer", "message">>

PlaceValue(obj, place) ==
    IF Len(place) = 1 THEN Get(obj, place[1]) ELSE Get(Get(obj, place[1]), place[2])

IsNonEmptyString(x) == x.t = "str" /\ x.v # <<>>

\* the strings the recursive search can return, in the order it meets them: at
\* each object the non-blank strings under the names, then those of the nested
\* objects, depth-first in property order
RECURSIVE SearchOrder(_)
RECURSIVE SearchOrderOfAll(_)
SearchOrder(x) ==
    IF x.t # "obj" THEN <<>>
    ELSE LET named == [k \in 1..Len(SearchNames) |-> Get(x, SearchNames[k])]
             own   == SelectSeq(named, IsNonBlankString)
         IN  [k \in 1..Len(own) |-> own[k].v] \o SearchOrderOfAll(x.v)
SearchOrderOfAll(pairs) ==
    IF pairs = <<>> THEN <<>>
    ELSE SearchOrder(pairs[1][2]) \o SearchOrderOfAll(Tail(pairs))

\* the fragment the claim gives for a payload
ClaimedFragment(obj) ==
    LET direct == {k \in 1..Len(DirectPlaces) : IsNonEmptyString(PlaceValue(obj, DirectPlaces[k]))}
    IN  IF direct # {} THEN PlaceValue(obj, DirectPlaces[MinOf(direct)]).v
        ELSE IF SearchOrder(obj) # <<>> THEN SearchOrder(obj)[1]
        ELSE <<>>

\* the payload is an object of subtype message.delta (also by default) or answer
IsContentSubtype(obj) ==
    /\ obj.t = "obj"
    /\ \/ ~Truthy(Get(obj, "type"))
       \/ IsWord(Get(obj, "type"), "message.delta")
       \/ IsWord(Get(obj, "type"), "answer")

\* C24: for a message / delta frame of subtype message.delta or answer the
\* fragment appended is the first non-empty value among message.content,
\* object.value, delta.content, content, answer (a string), text, in this order;
\* when none of them has one, it is what the recursive search finds: at each
\* object a non-blank string under content, text, value, answer, message, and
\* only then the nested objects, depth-first.
C24_FragmentPriority ==
    [][(/\ ParsedFramePass
        /\ IsMessageFrame(CurrentFrame)
        /\ IsContentSubtype(CurrentPayload))
       => accumulatedResponse' = accumulatedResponse \o ClaimedFragment(CurrentPayload)]_vars

\* the fragment a processed frame contributes: the content of a parsed message /
\* delta frame of subtype message.delta or answer, nothing for any other frame
FragmentOf(f) ==
    IF /\ f.data \in ValidPayloads
       /\ IsMessageFrame([name |-> IF f.ev = "" THEN "message" ELSE f.ev])
       /\ IsContentSubtype(Payload(f.data))
    THEN DeltaContent(Payload(f.data))
    ELSE <<>>

RECURSIVE FragmentsOf(_)
FragmentsOf(fs) ==
    IF fs = <<>> THEN <<>> ELSE FragmentOf(Head(fs)) \o FragmentsOf(Tail(fs))

IsPrefix(a, b) == Len(a) <= Len(b) /\ SubSeq(b, 1, Len(a)) = a

\* C25: accumulatedText is append-only: at every step its previous value is a
\* prefix of its new value; and it always equals, so also at the end of the
\* stream, the fragments of the frames processed so far, in stream order.
C25_AccumulatedTextAppendOnly ==
    /\ [][IsPrefix(accumulatedResponse, accumulatedResponse')]_vars
    /\ [](accumulatedResponse = FragmentsOf(Processed))

C25_Witness ==
    /\ Returned
    /\ accumulatedResponse = <<"a", "b", "a">>
    /\ Len(Processed) = MaxFrames

\* the raw data of the frame the next pass interprets
CurrentData == TextOf(EventDataOf(NextBlock(buffer)))

IsNonEmpty(text) == text # <<>>

\* what the claim takes completeResponse from, in order
SecondDeltaSources(raw, obj) ==
    <<CleanContent(ContentMatch(raw)),
      Text(Get(Get(obj, "object"), "value")),
      Text(Get(Get(obj, "message"), "content"))>>

\* C26: on the second answer delta, when the three-anchor pattern is absent from
\* the raw data, completeResponse is the first available of the quoted content
\* field matched in the raw data, object.value and message.content, and finished
\* becomes true; when none is available neither changes and the stream goes on
\* being read.
C26_SecondDeltaWithoutAnchors ==
    [][(/\ ParsedFramePass
        /\ CurrentFrame.name = DELTA
        /\ IsWord(Get(CurrentPayload, "type"), "answer")
        /\ deltaCount = 1
        /\ TravelMatchStart(CurrentData) = 0)
       => LET found == SelectSeq(SecondDeltaSources(CurrentData, CurrentPayload), IsNonEmpty)
          IN  IF found # <<>>
              THEN completeResponse' = found[1] /\ isFinished'
              ELSE /\ completeResponse' = completeResponse
                   /\ isFinished' = isFinished
                   /\ pc' \in {"read", "frames"}]_vars

C26_Witness ==
    /\ Returned
    /\ deltaCount = 2
    /\ completeResponse = <<"v">>
    /\ cozeText = <<"v">>
    /\ wire # <<>>

\* the section the claim gives for an anchor: the text after it when it occurs
ClaimedSection(in, anchor) ==
    IF \E i \in 1..Len(in.tail) : in.tail[i] = anchor THEN SectionOf(anchor) ELSE <<>>

\* C27: when at least one of the three anchors occurs in the final text the
\* paragraph / line fallback is not used: each section whose anchor occurs is the
\* text from its anchor to the next anchor or the end, the others are empty; for
\* 旅行推荐:X alone, title = X and plan and highlights are empty.
C27_PartialAnchors ==
    (Returned /\ input.kind = "partial") =>
       /\ Result.title = ClaimedSection(input, "TJ")
       /\ Result.plan = ClaimedSection(input, "GH")
       /\ Result.highlights = ClaimedSection(input, "HB")

\* C28: on text without anchors with fewer than 3 paragraphs: with at least 2
\* lines, title is the first line, plan the remaining lines joined, highlights
\* empty; with a single line, plan is the entire text and title and highlights
\* are the placeholders; the placeholders are used in no other case.
C28_LineFallbackCascade ==
    (Returned /\ input.kind = "paragraphs") =>
       LET text  == Assemble(input)
           lines == SplitOn(text, "NL")
       IN  /\ (Len(input.parts) < 3 /\ Len(lines) >= 2) =>
                 /\ Result.title = lines[1]
                 /\ Result.plan = Join(Tail(lines), <<"NL">>)
                 /\ Result.highlights = <<>>
           /\ Len(lines) = 1 =>
                 /\ Result.title = PlaceholderTitle
                 /\ Result.plan = text
                 /\ Result.highlights = PlaceholderHighlights
           /\ (Result.title = PlaceholderTitle \/ Result.highlights = PlaceholderHighlights)
                 => Len(lines) = 1

C28_Witness ==
    /\ Returned
    /\ input.kind = "paragraphs"
    /\ Len(input.parts) = 1
    /\ Result.title = <<"a">>
    /\ Result.plan = <<"b">>
    /\ Result.highlights = <<>>

\* the objects written in a buffer, in order
IsObjectToken(tok) == tok \in ValidPayloads /\ Payload(tok).t = "obj"
ObjectsIn(buf) ==
    LET toks == SelectSeq(buf, IsObjectToken) IN [i \in 1..Len(toks) |-> Payload(toks[i])]

\* the top-level fields the recovery looks at, in priority order
RecoveryFields == <<"content", "text", "answer", "value", "message">>

\* all the strings of a value, depth-first in property order
RECURSIVE StringsOf(_)
RECURSIVE StringsOfAll(_)
StringsOf(x) ==
    IF x.t = "str" THEN <<x.v>> ELSE IF x.t = "obj" THEN StringsOfAll(x.v) ELSE <<>>
StringsOfAll(pairs) ==
    IF pairs = <<>> THEN <<>> ELSE StringsOf(pairs[1][2]) \o StringsOfAll(Tail(pairs))

IsLongString(text) == Len(Trim(text)) > RecoveryMinLength

\* the text the claim recovers from one object
ClaimedObjectText(obj) ==
    LET fields == [k \in 1..Len(RecoveryFields) |-> Get(obj, RecoveryFields[k])]
        top    == SelectSeq(fields, IsNonBlankString)
        long   == SelectSeq(StringsOf(obj), IsLongString)
    IN  IF top # <<>> THEN top[1].v ELSE IF long # <<>> THEN long[1] ELSE <<>>

\* the text the claim recovers from a buffer: the first object that yields text,
\* then the three-anchor match, then the raw buffer
ClaimedRecovery(buf) ==
    LET objs   == ObjectsIn(buf)
        texts  == SelectSeq([i \in 1..Len(objs) |-> ClaimedObjectText(objs[i])], IsNonEmpty)
        raw    == TextOf(buf)
    IN  IF texts # <<>> THEN texts[1]
        ELSE IF RawTravelMatchStart(raw) > 0 THEN From(raw, RawTravelMatchStart(raw))
        ELSE raw

\* C29: Raw Recovery runs only when the final text is empty, and then the first
\* success wins: text of a JSON object of the trailing buffer (top-level content,
\* text, answer, value, message in this order, else its first nested string of
\* more than 20 trimmed characters), then the three-anchor match in the raw
\* buffer, then the entire raw buffer.
C29_RawRecoveryOrder ==
    Returned =>
       cozeText = (IF completeResponse # <<>> THEN completeResponse
                   ELSE IF accumulatedResponse # <<>> THEN accumulatedResponse
                   ELSE ClaimedRecovery(buffer))

\* Raw Recovery has been run on the buffer
Recovered == Returned /\ completeResponse = <<>> /\ accumulatedResponse = <<>>

\* C30: the anchor pattern Raw Recovery applies to the raw buffer accepts the same
\* strings as the anchor pattern of the fast path, with the same matched text:
\* on every buffer recovered, both match from the same place or neither matches.
C30_SameAnchorPattern ==
    Recovered => RawTravelMatchStart(TextOf(buffer)) = TravelMatchStart(TextOf(buffer))

----------------------------------------------------------------------------
(* The Frame Reader on line-groups *)

\* the body of the response, and the part of it the reader has delivered
Body == Delimited(input.parts) \o input.tail
Received == SubSeq(Body, 1, Len(Body) - Len(wire))

\* no chunk is being processed: the inner loop has run to its end
ChunkProcessed == pc \in {"read", "final", "returned"}

\* C31: after each chunk has been processed the trailing buffer holds no
\* two-newline delimiter, and the text received so far is, in order, the consumed
\* line-groups each followed by its delimiter and then the trailing buffer: no
\* character is lost, duplicated or reordered, also when a frame or its delimiter
\* is split across chunks.
C31_BufferConservation ==
    /\ ChunkProcessed => BoundaryIndex(buffer) = 0
    /\ \E k \in 0..Len(input.parts) :
          Received = Delimited(SubSeq(input.parts, 1, k)) \o buffer

\* a delimiter split across two chunks, after a first line-group has been consumed
C31_Witness ==
    /\ pc = "read"
    /\ Len(input.parts) = 2
    /\ Len(Received) > Len(buffer)
    /\ Len(buffer) > 1
    /\ buffer[Len(buffer)] = "NL"
    /\ wire # <<>>
    /\ wire[1] = "NL"

\* a pass of the inner loop
FramePass == pc = "frames" /\ buffer' = AfterBlock(buffer)

\* the five fields of the StreamState are left as they are
StreamStateUnchanged ==
    /\ accumulatedResponse' = accumulatedResponse
    /\ completeResponse' = completeResponse
    /\ deltaCount' = deltaCount
    /\ isFinished' = isFinished
    /\ error' = error

HasEventLine(block) ==
    \E i \in 1..Len(SplitLines(block)) :
       SplitLines(block)[i] # <<>> /\ SplitLines(block)[i][1] = "event:"

\* the StreamState after the pass
StreamStateAfter ==
    [acc |-> accumulatedResponse', complete |-> completeResponse', delta |-> deltaCount',
     fin |-> isFinished', err |-> error']

\* C32: a line-group with no event: line is interpreted as the same line-group
\* with the line  event: message  in front, and a line-group that is empty after
\* trimming is discarded without changing any StreamState field.
C32_DefaultEventAndBlankGroups ==
    [][FramePass =>
         /\ Trim(NextBlock(buffer)) = <<>> => StreamStateUnchanged
         /\ (Trim(NextBlock(buffer)) # <<>> /\ ~HasEventLine(NextBlock(buffer))) =>
               StreamStateAfter =
                  ProcessBlock(StreamState, <<"event:", "message", "NL">> \o NextBlock(buffer))]_vars

\* a blank group was discarded and a data: line without event: gave the text
C32_Witness ==
    /\ Returned
    /\ input.parts = << <<"SP">>, <<"data:", "pDelta">> >>
    /\ input.tail = <<>>
    /\ accumulatedResponse = <<"b">>
    /\ cozeText = <<"b">>

\* C38: a frame with no data: line, or whose data is blank after trimming,
\* changes no StreamState field and raises no error whatever its eventType is,
\* error and done included: it neither fails the call nor sets finished.
C38_EmptyDataFrameIgnored ==
    [][(FramePass /\ EventDataOf(NextBlock(buffer)) = <<>>) =>
          StreamStateUnchanged /\ pc' # "failed"]_vars

\* an error event without data and a done event without data were passed, the
\* stream was read to its end and the text after them recovered
C38_Witness ==
    /\ Returned
    /\ input.parts = << <<"event:", "error">>, <<"event:", "done">> >>
    /\ input.tail = <<"data:", "pDelta">>
    /\ ~isFinished
    /\ readerDone
    /\ cozeText = <<"b">>

\* C39: every itinerary the call returns is built from a non-empty final text
\* and has at least one non-empty section among title, plan and highlights, also
\* when the text is the trailing buffer and holds only whitespace or newlines.
C39_SomeSectionNonEmpty ==
    Returned =>
       /\ cozeText # <<>>
       /\ Result.title # <<>> \/ Result.plan # <<>> \/ Result.highlights # <<>>

----------------------------------------------------------------------------
(* Destination, summary and budget *)

\* the value that follows the first 目的地: marker that has one: after the colon
\* and the blanks, the characters up to a newline or a punctuation mark, trimmed
MarkerValue(text) ==
    LET valued == {i \in 1..Len(text) :
                     /\ AnchorAt(text, i, "MD")
                     /\ SkipWs(text, i + 2) <= Len(text)
                     /\ IsDestChar(text[SkipWs(text, i + 2)])}
    IN  IF valued = {} THEN <<>>
        ELSE LET k == SkipWs(text, MinOf(valued) + 2)
             IN  Trim(SubSeq(text, k, DestRunEnd(text, k)))

\* the cascade: marker value, place name of the title, prefix of the title, literal
ClaimedDestination(text, title) ==
    IF MarkerValue(text) # <<>> THEN MarkerValue(text)
    ELSE IF LocationInTitle(title) # <<>> THEN LocationInTitle(title)
    ELSE IF title # <<>> THEN TitlePrefix(title)
    ELSE UnknownDestination

\* C33: the destination is chosen by a first-success cascade: the value after an
\* explicit 目的地: marker anywhere in the final text; else a place name ending in
\* an administrative suffix found in the title section; else the first 10
\* characters of the title without punctuation; and it is the literal
\* unknown-destination only when the title section is empty and no marker gives
\* a value.
C33_DestinationCascade ==
    Returned =>
       /\ Result.destination = ClaimedDestination(cozeText, Result.title)
       /\ Result.destination = UnknownDestination =>
             Result.title = <<>> /\ MarkerValue(cozeText) = <<>>

\* C34: the summary of every returned itinerary is truncated: its length never
\* exceeds the 200-character threshold plus the three characters of the ellipsis,
\* whether it is taken from the title section or from the final text.
C34_SummaryBounded == Returned => Len(Result.summary) <= SummaryLimit + Len(Ellipsis)

\* a budget made of digits
IsNumericBudget(b) == b # <<>> /\ \A i \in 1..Len(b) : b[i] \in Digits

\* C35: the budget field is "budget-about <budget> yuan-rmb" only when the request
\* carries a numeric budget; for an absent budget and for a non-numeric one (the
\* value the form submits when the unlimited box is checked) it is
\* "budget-unlimited".
C35_BudgetField ==
    Returned =>
       Result.budget = IF IsNumericBudget(params.budget)
                       THEN <<"budget-about">> \o params.budget \o <<"yuan-rmb">>
                       ELSE <<"budget-unlimited">>

----------------------------------------------------------------------------
(* The ingestion and the chunks of the transport *)

\* the StreamState of a call that has read nothing
FreshState == [acc |-> <<>>, complete |-> <<>>, delta |-> 0, fin |-> FALSE, err |-> ""]

\* how the call ends when the transport delivers the whole body as one chunk
OneChunkEnding(body) ==
    LET pass  == Drain(FreshState, body)
        final == FinalResponse(pass.st.complete, pass.st.acc, pass.buf)
    IN  IF pass.st.err # "" THEN Ending(pass.st.err, <<>>)
        ELSE IF final.ok THEN Ending("", final.text)
        ELSE Ending("EmptyResponse", <<>>)

\* C36: the outcome of an ingestion (the final text, or the error raised) depends
\* only on the bytes of the stream and not on how the transport cuts them into
\* chunks: a call the transport does not fail ends as it ends when the same bytes
\* arrive as one chunk.
C36_OutcomeIndependentOfChunking ==
    (Exited /\ error # "ReadError") =>
       Ending(error, IF Returned THEN cozeText ELSE <<>>)
          = OneChunkEnding(RenderAll(input.parts) \o input.tail)

\* finished has been set and there is text to return
FinishedWithText == isFinished /\ (completeResponse # <<>> \/ accumulatedResponse # <<>>)

\* C37: once finished has been set with usable text, the call returns an
\* itinerary: no frame that follows in the stream (frames already buffered from
\* the same chunk included) appends to accumulatedResponse, changes deltaCount
\* or fails the call with a protocol error.
C37_NothingAfterFinished ==
    /\ [][(FinishedWithText /\ FramePass) =>
            /\ accumulatedResponse' = accumulatedResponse
            /\ deltaCount' = deltaCount
            /\ pc' # "failed"]_vars
    /\ []((FinishedWithText /\ Exited) => Returned)

----------------------------------------------------------------------------
(* POST and the storage *)

\* C40: per POST request, the preference is saved before the remote call, and
\* saveItinerary is called at most once and only if the preference save returned
\* an id; the stored is_ai_generated flag is true exactly when the stored
\* itinerary came from the remote service and false exactly when it is the mock
\* fallback.
C40_StorageOrderAndFlag ==
    /\ (post.remoteCalls > 0 \/ post.phase \in {"ingest", "mock"}) => post.prefOutcome # ""
    /\ Len(post.saves) <= 1
    /\ post.saves # <<>> => post.prefOutcome = "row" /\ Responded
    /\ \A i \in 1..Len(post.saves) :
          /\ post.saves[i].ai <=> (Returned /\ post.aiError = ""
                                   /\ post.response = Success(Result, FALSE))
          /\ ~post.saves[i].ai <=> (post.aiError # "" /\ post.response.fallback
                                    /\ post.response.data \in
                                          {<<m>> : m \in MockItineraries(params)})

\* the mock itinerary was stored, with the flag false, after a remote call failed
C40_Witness ==
    /\ Responded
    /\ post.prefOutcome = "row"
    /\ post.remoteCalls = 1
    /\ post.aiError = "StreamError"
    /\ Len(post.saves) = 1
    /\ ~post.saves[1].ai

====
